---- MODULE Spec2Model ----
(***************************************************************************)
(* A model of the thyme-sdk core: the string sanitizers and the Deno       *)
(* launcher of packages/cli/src/deno/runner.ts, the in-process sandbox of  *)
(* packages/sdk/src/sandbox/sandbox.ts and the ZIP archive packer and      *)
(* unpacker of the SDK (compressTask / decompressTask).                    *)
(*                                                                         *)
(* Text is modelled as a sequence of characters; a character is a          *)
(* one-character string, or a name for the characters TLA+ cannot spell.   *)
(***************************************************************************)
EXTENDS Integers, Sequences, FiniteSets, TLC

VARIABLES
    \* escapeJsString and the bootstrap template (runner.ts)
    escPc, escIn, escOut, escRead,
    \* compressTask / decompressTask (SDK archive)
    arcPc, arcZip, arcSource, arcBundle, arcOut,
    \* sandbox() (sandbox.ts): process-wide state and the calls in flight
    console, processEnv, envAllocs, sbCall,
    \* runInDeno (runner.ts): the child process and the promise
    proc, stdout, stderr, logs, promise, resolveCalls, elapsed, config,
    \* runInDeno (runner.ts): what it prepares before it spawns the process
    lnPc, taskPath, taskConfig, args, safeArgs, denoFlags,
    \* serializeValue (sandbox.ts): the value logged and its text
    serPc, serIn, serOut

escVars == <<escPc, escIn, escOut, escRead>>
arcVars == <<arcPc, arcZip, arcSource, arcBundle, arcOut>>
sbVars  == <<console, processEnv, envAllocs, sbCall>>
runVars == <<proc, stdout, stderr, logs, promise, resolveCalls, elapsed, config>>
lnVars  == <<lnPc, taskPath, taskConfig, args, safeArgs, denoFlags>>
serVars == <<serPc, serIn, serOut>>
vars    == <<escVars, arcVars, sbVars, runVars, lnVars, serVars>>

(***************************************************************************)
(* Helpers on sequences.                                                   *)
(***************************************************************************)
\* The concatenation of the pieces ss[lo], ..., ss[hi], by halves.
RECURSIVE ConcatRange(_, _, _)
ConcatRange(ss, lo, hi) ==
    IF lo > hi THEN <<>>
    ELSE IF lo = hi THEN ss[lo]
    ELSE LET mid == (lo + hi) \div 2
         IN  ConcatRange(ss, lo, mid) \o ConcatRange(ss, mid + 1, hi)

Flatten(ss) == ConcatRange(ss, 1, Len(ss))

Min(S) == CHOOSE x \in S : \A y \in S : x <= y

Max(S) == CHOOSE x \in S : \A y \in S : y <= x

Range(s) == {s[i] : i \in 1..Len(s)}

RECURSIVE SeqsUpTo(_, _)
SeqsUpTo(S, n) ==
    IF n = 0 THEN {<<>>}
    ELSE LET shorter == SeqsUpTo(S, n - 1)
         IN  shorter \cup {Append(s, c) : s \in {t \in shorter : Len(t) = n - 1}, c \in S}

(***************************************************************************)
(* Characters.                                                             *)
(***************************************************************************)
BSL == "\\"
SQ  == "'"
DQ  == "\""
LF  == "\n"
CR  == "\r"
TAB == "\t"
NUL == "NUL"
Digits == {"0", "1", "2", "3", "4", "5", "6", "7", "8", "9"}

(***************************************************************************)
(* escapeJsString (runner.ts:26-35): seven global replacements, applied in *)
(* the order of the source.                                                *)
(***************************************************************************)
ReplaceAll(str, c, by) ==
    Flatten([i \in 1..Len(str) |-> IF str[i] = c THEN by ELSE <<str[i]>>])

\* The same replacements with the backslash handled last, so that the
\* backslashes the earlier replacements insert are doubled again.
escapeJsStringBackslashLast(str) ==
    LET s1 == ReplaceAll(str, SQ, <<BSL, SQ>>)
        s2 == ReplaceAll(s1, DQ, <<BSL, DQ>>)
        s3 == ReplaceAll(s2, LF, <<BSL, "n">>)
        s4 == ReplaceAll(s3, CR, <<BSL, "r">>)
        s5 == ReplaceAll(s4, TAB, <<BSL, "t">>)
        s6 == ReplaceAll(s5, NUL, <<BSL, "0">>)
    IN  ReplaceAll(s6, BSL, <<BSL, BSL>>)

escapeJsString(str) ==
    LET s1 == ReplaceAll(str, BSL, <<BSL, BSL>>)
        s2 == ReplaceAll(s1, SQ, <<BSL, SQ>>)
        s3 == ReplaceAll(s2, DQ, <<BSL, DQ>>)
        s4 == ReplaceAll(s3, LF, <<BSL, "n">>)
        s5 == ReplaceAll(s4, CR, <<BSL, "r">>)
        s6 == ReplaceAll(s5, TAB, <<BSL, "t">>)
    IN  ReplaceAll(s6, NUL, <<BSL, "0">>)

(***************************************************************************)
(* The bootstrap template embeds the escaped path between single quotes    *)
(* (runner.ts:158, import task from '...').  The program is an ES module,  *)
(* hence strict code.  ReadLiteral is what the runtime's lexer makes of    *)
(* the text after the opening quote: the string value when the text is the *)
(* body of one well-formed literal, a syntax error otherwise.              *)
(*   status "ok"       the whole text was read as the literal's body       *)
(*   status "closed"   an unescaped quote ended the literal inside the text*)
(*   status "syntax"   the lexer rejects the literal                       *)
(***************************************************************************)
RECURSIVE ReadLiteralFrom(_, _, _)
ReadLiteralFrom(body, i, acc) ==
    IF i > Len(body) THEN [status |-> "ok", value |-> acc]
    ELSE LET c == body[i] IN
      IF c = SQ THEN [status |-> "closed", value |-> acc]
      ELSE IF c \in {LF, CR} THEN [status |-> "syntax", value |-> acc]
      ELSE IF c # BSL THEN ReadLiteralFrom(body, i + 1, Append(acc, c))
      ELSE IF i = Len(body) THEN [status |-> "syntax", value |-> acc]
      ELSE LET e == body[i + 1] IN
        CASE e = "n" -> ReadLiteralFrom(body, i + 2, Append(acc, LF))
          [] e = "r" -> ReadLiteralFrom(body, i + 2, Append(acc, CR))
          [] e = "t" -> ReadLiteralFrom(body, i + 2, Append(acc, TAB))
          [] e = "0" ->
               \* \0 is the null character unless a decimal digit follows; then it
               \* is a legacy octal escape, which strict code rejects.
               IF i + 2 <= Len(body) /\ body[i + 2] \in Digits
               THEN [status |-> "syntax", value |-> acc]
               ELSE ReadLiteralFrom(body, i + 2, Append(acc, NUL))
          [] e \in Digits \ {"0"} -> [status |-> "syntax", value |-> acc]
          [] e \in {"x", "u"} -> [status |-> "syntax", value |-> acc]
          [] e = LF -> ReadLiteralFrom(body, i + 2, acc)
          [] OTHER -> ReadLiteralFrom(body, i + 2, Append(acc, e))

ReadLiteral(body) == ReadLiteralFrom(body, 1, <<>>)

\* The characters the inputs of escapeJsString are drawn from: the seven the
\* function escapes, and three it leaves alone.
MaxStrLen == 3
EscChars == {BSL, SQ, DQ, LF, CR, TAB, NUL, "n", "1", "a"}
EscInputs == SeqsUpTo(EscChars, MaxStrLen)

EscIdle == escPc = "idle" /\ escIn = <<>> /\ escOut = <<>> /\ escRead = [status |-> "none", value |-> <<>>]

EscInit == escPc = "start" /\ escIn \in EscInputs /\ escOut = <<>>
           /\ escRead = [status |-> "none", value |-> <<>>]

\* runner.ts:85, const safeTaskPath = escapeJsString(absoluteTaskPath)
EscapePath ==
    /\ escPc = "start"
    /\ escOut' = escapeJsString(escIn)
    /\ escPc' = "escaped"
    /\ UNCHANGED <<escIn, escRead>>
    /\ UNCHANGED <<arcVars, sbVars, runVars, lnVars, serVars>>

\* runner.ts:158, the runtime reads the import specifier of the program
LoadProgram ==
    /\ escPc = "escaped"
    /\ escRead' = ReadLiteral(escOut)
    /\ escPc' = "loaded"
    /\ UNCHANGED <<escIn, escOut>>
    /\ UNCHANGED <<arcVars, sbVars, runVars, lnVars, serVars>>

EscNext == EscapePath \/ LoadProgram

(***************************************************************************)
(* Idle values of the other components, filled in below with their models. *)
(***************************************************************************)
ArcIdle == arcPc = "idle" /\ arcZip = <<>> /\ arcSource = <<>> /\ arcBundle = <<>> /\ arcOut = <<>>

(***************************************************************************)
(* The archive (compressTask / decompressTask).                            *)
(*                                                                         *)
(* A text is a JavaScript string: a sequence of UTF-16 code units.  To     *)
(* reach the size bounds, a text is a short explicit head followed by pad  *)
(* copies of the letter a: [head |-> <<...>>, pad |-> n].  Bytes have the  *)
(* same shape, the padding being the byte 97.  Heads never hold 97, so a   *)
(* text has one representation.                                            *)
(***************************************************************************)
MAX_ZIP_SIZE == 10 * 1024 * 1024
MAX_DECOMPRESSED_SIZE == 50 * 1024 * 1024

IsHigh(c) == c >= 55296 /\ c <= 56319
IsLow(c)  == c >= 56320 /\ c <= 57343

\* UTF-8 of the code point cp
Utf8Of(cp) ==
    IF cp < 128 THEN <<cp>>
    ELSE IF cp < 2048 THEN <<192 + (cp \div 64), 128 + (cp % 64)>>
    ELSE IF cp < 65536
         THEN <<224 + (cp \div 4096), 128 + ((cp \div 64) % 64), 128 + (cp % 64)>>
    ELSE <<240 + (cp \div 262144), 128 + ((cp \div 4096) % 64),
           128 + ((cp \div 64) % 64), 128 + (cp % 64)>>

\* The encoder of strToU8: a surrogate pair is one code point, an unpaired
\* surrogate is encoded as U+FFFD.
RECURSIVE EncodeUnits(_, _)
EncodeUnits(u, i) ==
    IF i > Len(u) THEN <<>>
    ELSE IF IsHigh(u[i]) /\ i < Len(u) /\ IsLow(u[i + 1])
         THEN Utf8Of(65536 + (u[i] - 55296) * 1024 + (u[i + 1] - 56320))
              \o EncodeUnits(u, i + 2)
    ELSE IF IsHigh(u[i]) \/ IsLow(u[i]) THEN Utf8Of(65533) \o EncodeUnits(u, i + 1)
    ELSE Utf8Of(u[i]) \o EncodeUnits(u, i + 1)

\* The decoder of strFromU8: malformed input decodes to U+FFFD.
RECURSIVE DecodeBytes(_, _)
DecodeBytes(b, i) ==
    IF i > Len(b) THEN <<>>
    ELSE IF b[i] < 128 THEN <<b[i]>> \o DecodeBytes(b, i + 1)
    ELSE IF b[i] >= 192 /\ b[i] < 224 /\ i + 1 <= Len(b)
         THEN <<(b[i] - 192) * 64 + (b[i + 1] - 128)>> \o DecodeBytes(b, i + 2)
    ELSE IF b[i] >= 224 /\ b[i] < 240 /\ i + 2 <= Len(b)
         THEN <<(b[i] - 224) * 4096 + (b[i + 1] - 128) * 64 + (b[i + 2] - 128)>>
              \o DecodeBytes(b, i + 3)
    ELSE IF b[i] >= 240 /\ b[i] < 248 /\ i + 3 <= Len(b)
         THEN LET cp == (b[i] - 240) * 262144 + (b[i + 1] - 128) * 4096
                        + (b[i + 2] - 128) * 64 + (b[i + 3] - 128)
              IN  <<55296 + ((cp - 65536) \div 1024), 56320 + ((cp - 65536) % 1024)>>
                  \o DecodeBytes(b, i + 4)
    ELSE <<65533>> \o DecodeBytes(b, i + 1)

strToU8(text) == [head |-> EncodeUnits(text.head, 1), pad |-> text.pad]

\* strFromU8 that decodes byte by byte (the latin1 reading of the bytes).
strFromU8Latin1(bytes) == [head |-> bytes.head, pad |-> bytes.pad]

strFromU8(bytes) == [head |-> DecodeBytes(bytes.head, 1), pad |-> bytes.pad]

ByteLength(bytes) == Len(bytes.head) + bytes.pad

\* calculateSha256: the digest stands for the bytes it was computed over
\* (a collision-resistant hash: equal digests, equal data).
calculateSha256(data) == [sha256 |-> data]

RECURSIVE SumLengths(_, _)
SumLengths(files, keys) ==
    IF keys = {} THEN 0
    ELSE LET k == CHOOSE x \in keys : TRUE
         IN  ByteLength(files[k]) + SumLengths(files, keys \ {k})

(***************************************************************************)
(* A zip buffer is the bytes of an archive, kept as what unzipSync makes   *)
(* of them: whether they are a readable archive, their length, the entries *)
(* and the modification time zipSync stamps into the entry headers.        *)
(***************************************************************************)
compressTask(source, bundle, zipLength, now) ==
    LET files == [n \in {"source.ts", "bundle.js"} |->
                    IF n = "source.ts" THEN strToU8(source) ELSE strToU8(bundle)]
        compressed == [valid |-> TRUE, length |-> zipLength, files |-> files, mtime |-> now]
    IN  [zipBuffer |-> compressed, checksum |-> calculateSha256(compressed)]

\* decompressTask with the archive read before its length is checked.
decompressTaskUnzipFirst(zipBuffer) ==
    IF ~zipBuffer.valid
    THEN [status |-> "throw", error |-> "invalid zip data", unzipInvoked |-> TRUE]
    ELSE IF zipBuffer.length > MAX_ZIP_SIZE
    THEN [status |-> "throw", error |-> "ZIP file too large", unzipInvoked |-> TRUE]
    ELSE LET decompressed == zipBuffer.files
             totalDecompressedSize == SumLengths(decompressed, DOMAIN decompressed)
         IN  IF totalDecompressedSize > MAX_DECOMPRESSED_SIZE
             THEN [status |-> "throw", error |-> "Decompressed content too large",
                   unzipInvoked |-> TRUE]
             ELSE IF "source.ts" \notin DOMAIN decompressed
             THEN [status |-> "throw", error |-> "source.ts not found in ZIP archive",
                   unzipInvoked |-> TRUE]
             ELSE IF "bundle.js" \notin DOMAIN decompressed
             THEN [status |-> "throw", error |-> "bundle.js not found in ZIP archive",
                   unzipInvoked |-> TRUE]
             ELSE [status |-> "ok", unzipInvoked |-> TRUE,
                   source |-> strFromU8(decompressed["source.ts"]),
                   bundle |-> strFromU8(decompressed["bundle.js"])]

\* decompressTask with only the two named entries counted in stage 2.
decompressTaskNamedOnly(zipBuffer) ==
    IF zipBuffer.length > MAX_ZIP_SIZE
    THEN [status |-> "throw", error |-> "ZIP file too large", unzipInvoked |-> FALSE]
    ELSE IF ~zipBuffer.valid
    THEN [status |-> "throw", error |-> "invalid zip data", unzipInvoked |-> TRUE]
    ELSE LET decompressed == zipBuffer.files
             totalDecompressedSize ==
                 SumLengths(decompressed, DOMAIN decompressed \cap {"source.ts", "bundle.js"})
         IN  IF totalDecompressedSize > MAX_DECOMPRESSED_SIZE
             THEN [status |-> "throw", error |-> "Decompressed content too large",
                   unzipInvoked |-> TRUE]
             ELSE IF "source.ts" \notin DOMAIN decompressed
             THEN [status |-> "throw", error |-> "source.ts not found in ZIP archive",
                   unzipInvoked |-> TRUE]
             ELSE IF "bundle.js" \notin DOMAIN decompressed
             THEN [status |-> "throw", error |-> "bundle.js not found in ZIP archive",
                   unzipInvoked |-> TRUE]
             ELSE [status |-> "ok", unzipInvoked |-> TRUE,
                   source |-> strFromU8(decompressed["source.ts"]),
                   bundle |-> strFromU8(decompressed["bundle.js"])]

\* decompressTask that returns what it found when the bundle entry is missing.
decompressTaskBestEffort(zipBuffer) ==
    IF zipBuffer.length > MAX_ZIP_SIZE
    THEN [status |-> "throw", error |-> "ZIP file too large", unzipInvoked |-> FALSE]
    ELSE IF ~zipBuffer.valid
    THEN [status |-> "throw", error |-> "invalid zip data", unzipInvoked |-> TRUE]
    ELSE LET decompressed == zipBuffer.files
             totalDecompressedSize == SumLengths(decompressed, DOMAIN decompressed)
         IN  IF totalDecompressedSize > MAX_DECOMPRESSED_SIZE
             THEN [status |-> "throw", error |-> "Decompressed content too large",
                   unzipInvoked |-> TRUE]
             ELSE IF "source.ts" \notin DOMAIN decompressed
             THEN [status |-> "throw", error |-> "source.ts not found in ZIP archive",
                   unzipInvoked |-> TRUE]
             ELSE IF "bundle.js" \notin DOMAIN decompressed
             THEN [status |-> "ok", unzipInvoked |-> TRUE,
                   source |-> strFromU8(decompressed["source.ts"]),
                   bundle |-> [head |-> <<>>, pad |-> 0]]
             ELSE [status |-> "ok", unzipInvoked |-> TRUE,
                   source |-> strFromU8(decompressed["source.ts"]),
                   bundle |-> strFromU8(decompressed["bundle.js"])]

decompressTask(zipBuffer) ==
    IF zipBuffer.length > MAX_ZIP_SIZE
    THEN [status |-> "throw", error |-> "ZIP file too large", unzipInvoked |-> FALSE]
    ELSE IF ~zipBuffer.valid
    THEN [status |-> "throw", error |-> "invalid zip data", unzipInvoked |-> TRUE]
    ELSE LET decompressed == zipBuffer.files
             totalDecompressedSize == SumLengths(decompressed, DOMAIN decompressed)
         IN  IF totalDecompressedSize > MAX_DECOMPRESSED_SIZE
             THEN [status |-> "throw", error |-> "Decompressed content too large",
                   unzipInvoked |-> TRUE]
             ELSE IF "source.ts" \notin DOMAIN decompressed
             THEN [status |-> "throw", error |-> "source.ts not found in ZIP archive",
                   unzipInvoked |-> TRUE]
             ELSE IF "bundle.js" \notin DOMAIN decompressed
             THEN [status |-> "throw", error |-> "bundle.js not found in ZIP archive",
                   unzipInvoked |-> TRUE]
             ELSE [status |-> "ok", unzipInvoked |-> TRUE,
                   source |-> strFromU8(decompressed["source.ts"]),
                   bundle |-> strFromU8(decompressed["bundle.js"])]

\* The inputs: texts with heads of an accented letter and the two halves of a
\* surrogate pair, padded to lengths around the stage-2 bound.
MaxHeadLen == 2
MaxClock == 1
ArcUnits == {233, 55357, 56832}
PadSamples == {0, MAX_DECOMPRESSED_SIZE \div 2, MAX_DECOMPRESSED_SIZE}
Texts == {[head |-> h, pad |-> p] : h \in SeqsUpTo(ArcUnits, MaxHeadLen), p \in PadSamples}
ZipLengths == {MAX_ZIP_SIZE \div 2, MAX_ZIP_SIZE, MAX_ZIP_SIZE + 1}

\* The lengths zipSync can produce for the entries: deflate does not turn a
\* small input into an archive above the stage-1 bound.
CompressedLengths(source, bundle) ==
    {n \in ZipLengths :
        n > MAX_ZIP_SIZE =>
            ByteLength(strToU8(source)) + ByteLength(strToU8(bundle)) >= MAX_ZIP_SIZE}

\* Buffers that reach decompressTask from elsewhere: any bytes at all.
EntryNames == {"source.ts", "bundle.js", "extra.bin"}
EntrySamples == {[head |-> <<>>, pad |-> p] : p \in PadSamples}
ReceivedBuffers ==
    {[valid |-> v, length |-> n, files |-> f, mtime |-> 0] :
        v \in BOOLEAN, n \in ZipLengths,
        f \in UNION {[D -> EntrySamples] : D \in SUBSET EntryNames}}

\* The bytes the sender hashed: the bytes received, or bytes that were altered
\* on the way (here in a header field, which unzipSync does not look at).
SentBuffers(buffer) == {buffer, [buffer EXCEPT !.mtime = buffer.mtime + 1]}

ArcInit == arcPc = "idle" /\ arcZip = <<>> /\ arcSource = <<>> /\ arcBundle = <<>> /\ arcOut = <<>>

\* compressTask(source, bundle)
Compress ==
    /\ arcPc = "idle"
    /\ \E source \in Texts, bundle \in Texts, now \in 0..MaxClock :
         \E zipLength \in CompressedLengths(source, bundle) :
            /\ arcSource' = source
            /\ arcBundle' = bundle
            /\ arcZip' = compressTask(source, bundle, zipLength, now)
    /\ arcPc' = "compressed"
    /\ UNCHANGED arcOut
    /\ UNCHANGED <<escVars, sbVars, runVars, lnVars, serVars>>

\* a container {zipBuffer, checksum} arrives from the transport
Receive ==
    /\ arcPc = "idle"
    /\ \E buffer \in ReceivedBuffers :
         \E sent \in SentBuffers(buffer) :
            arcZip' = [zipBuffer |-> buffer, checksum |-> calculateSha256(sent)]
    /\ arcPc' = "received"
    /\ UNCHANGED <<arcSource, arcBundle, arcOut>>
    /\ UNCHANGED <<escVars, sbVars, runVars, lnVars, serVars>>

\* decompressTask(zipBuffer)
Decompress ==
    /\ arcPc \in {"compressed", "received"}
    /\ arcOut' = decompressTask(arcZip.zipBuffer)
    /\ arcPc' = IF arcPc = "compressed" THEN "roundtrip" ELSE "unpacked"
    /\ UNCHANGED <<arcZip, arcSource, arcBundle>>
    /\ UNCHANGED <<escVars, sbVars, runVars, lnVars, serVars>>

ArcNext == Compress \/ Receive \/ Decompress

SbIdle == console = <<>> /\ processEnv = <<>> /\ envAllocs = 0 /\ sbCall = <<>>

(***************************************************************************)
(* sandbox() (sandbox.ts:62-165).                                          *)
(*                                                                         *)
(* console maps each of the four patched functions to the function that is *)
(* installed: 0 is the function the host had before any call, c > 0 is the *)
(* capturing wrapper that call c installed.  The wrapper of call c appends *)
(* to the logs of call c and forwards to originalConsole of call c.        *)
(* processEnv is the object process.env refers to: its identity and the    *)
(* names it holds.  envAllocs counts the objects hideProcessEnv has made.  *)
(*                                                                         *)
(* sandbox() is an async function: it runs from one await to the next      *)
(* without interruption.  SandboxStart runs it to the await of import(),   *)
(* ImportSettles from there to the await of run(), RunSettles to the end.  *)
(***************************************************************************)
NumCalls == 2
MaxLogs == 1
CallIds == 1..NumCalls
ConsoleFns == {"log", "warn", "error", "info"}
HostEnv == [id |-> 0, vars |-> {"HOME", "API_KEY"}]

Active(c) == sbCall[c].pc \in {"importing", "running"}

\* captureConsole (sandbox.ts:69-90): the four wrappers of call c
captureConsole(c) == [f \in ConsoleFns |-> c]

\* restoreConsole (sandbox.ts:93-98)
restoreConsole(originalConsole) == [f \in ConsoleFns |-> originalConsole[f]]

\* hideProcessEnv (sandbox.ts:101-103): a new, empty object
hideProcessEnv(n) == [id |-> n, vars |-> {}]

\* A finally block that is skipped: the console stays as the call left it.
ConsoleAfterFinallySkipped(current, originalConsole) == current

\* The finally block (sandbox.ts:152-164) as far as the console goes.
ConsoleAfterFinally(current, originalConsole) == restoreConsole(originalConsole)

\* The calls whose log buffer a call of the function fn appends to: the wrapper
\* installed, the wrapper its originalConsole holds, and so on (sandbox.ts:70-74).
RECURSIVE WrapperChain(_, _)
WrapperChain(fn, f) ==
    IF fn = 0 THEN {} ELSE {fn} \cup WrapperChain(sbCall[fn].originalConsole[f], f)

\* The log buffers after `times` calls of the function fn.
LogsAfterCalls(fn, f, times) ==
    [c \in CallIds |->
        IF c \in WrapperChain(fn, f) THEN sbCall[c].logs + times ELSE sbCall[c].logs]

\* sandbox.ts:150
SandboxPrefix ==
    <<"S", "a", "n", "d", "b", "o", "x", " ", "e", "x", "e", "c", "u", "t", "i", "o",
      "n", " ", "f", "a", "i", "l", "e", "d", ":", " ">>

\* sandbox.ts:123-125
MsgDefaultNotAvailable ==
    <<"D", "e", "f", "a", "u", "l", "t", " ", "e", "x", "p", "o", "r", "t", " ", "i",
      "s", " ", "n", "o", "t", " ", "a", "v", "a", "i", "l", "a", "b", "l", "e", ".",
      " ", "M", "a", "k", "e", " ", "s", "u", "r", "e", " ", "y", "o", "u", "r", " ",
      "t", "e", "m", "p", "l", "a", "t", "e", " ", "e", "x", "p", "o", "r", "t", "s",
      " ", "d", "e", "f", "a", "u", "l", "t", ":", " ", "e", "x", "p", "o", "r", "t",
      " ", "d", "e", "f", "a", "u", "l", "t", " ", "{", " ", "r", "u", "n", ",", " ",
      "f", "a", "i", "l", ",", " ", "s", "u", "c", "c", "e", "s", "s", " ", "}">>

\* sandbox.ts:129-131
MsgRunNotAvailable ==
    <<"r", "u", "n", " ", "f", "u", "n", "c", "t", "i", "o", "n", " ", "i", "s", " ",
      "n", "o", "t", " ", "a", "v", "a", "i", "l", "a", "b", "l", "e", ".", " ", "M",
      "a", "k", "e", " ", "s", "u", "r", "e", " ", "y", "o", "u", "r", " ", "t", "e",
      "m", "p", "l", "a", "t", "e", " ", "e", "x", "p", "o", "r", "t", "s", " ", "d",
      "e", "f", "a", "u", "l", "t", " ", "w", "i", "t", "h", " ", "a", " ", "r", "u",
      "n", " ", "f", "u", "n", "c", "t", "i", "o", "n", ":", " ", "e", "x", "p", "o",
      "r", "t", " ", "d", "e", "f", "a", "u", "l", "t", " ", "{", " ", "r", "u", "n",
      ":", " ", "o", "n", "R", "u", "n", "<", "A", "r", "g", "s", ">", "(", "a", "s",
      "y", "n", "c", " ", "(", "c", "t", "x", ")", " ", "=", ">", " ", "{", " ", ".",
      ".", ".", " ", "}", ")", " ", "}">>

\* messages of errors the file system, the module loader and a task raise
MsgNoSpace ==
    <<"E", "N", "O", "S", "P", "C", ":", " ", "n", "o", " ", "s", "p", "a", "c", "e",
      " ", "l", "e", "f", "t", " ", "o", "n", " ", "d", "e", "v", "i", "c", "e", ",",
      " ", "w", "r", "i", "t", "e">>
MsgCannotFind ==
    <<"C", "a", "n", "n", "o", "t", " ", "f", "i", "n", "d", " ", "p", "a", "c", "k",
      "a", "g", "e", " ", SQ, "x", SQ, " ", "i", "m", "p", "o", "r", "t", "e", "d",
      " ", "f", "r", "o", "m", " ", "/", "t", "m", "p", "/", "t", "h", "y", "m", "e",
      "-", "s", "a", "n", "d", "b", "o", "x", "-", "1", ".", "m", "j", "s">>
MsgBoom ==
    <<"b", "o", "o", "m">>
MsgOpenKey ==
    <<"E", "N", "O", "E", "N", "T", ":", " ", "n", "o", " ", "s", "u", "c", "h", " ",
      "f", "i", "l", "e", " ", "o", "r", " ", "d", "i", "r", "e", "c", "t", "o", "r",
      "y", ",", " ", "o", "p", "e", "n", " ", SQ, "/", "h", "o", "m", "e", "/", "u",
      "/", "k", "e", "y", "s", "/", "k", ".", "p", "e", "m", SQ>>
TextUndefined ==
    <<"u", "n", "d", "e", "f", "i", "n", "e", "d">>

\* Values that can be thrown: an Error with a message, a string, undefined.
NoError == [kind |-> "none"]
ErrorOf(message) == [kind |-> "Error", message |-> message]
ThrownString(value) == [kind |-> "string", value |-> value]
ThrownUndefined == [kind |-> "undefined"]

\* error instanceof Error ? error.message : String(error) (sandbox.ts:149)
errorMessage(error) ==
    IF error.kind = "Error" THEN error.message
    ELSE IF error.kind = "string" THEN error.value
    ELSE TextUndefined

\* What import() gives: the module's default export and its member run.
NoModule == [default |-> "none", run |-> "none"]
Modules ==
    {[default |-> "undefined", run |-> "none"],
     [default |-> "null", run |-> "none"],
     [default |-> "object", run |-> "undefined"],
     [default |-> "object", run |-> "number"],
     [default |-> "object", run |-> "function"]}
ImportErrors == {ErrorOf(MsgCannotFind)}
RunErrors == {ErrorOf(MsgBoom), ErrorOf(MsgOpenKey), ThrownString(MsgBoom), ThrownUndefined}

\* The validation with only the truthiness of run tested.
ValidateTruthyOnly(module) ==
    IF module.default \in {"undefined", "null"}
    THEN [ok |-> FALSE, error |-> ErrorOf(MsgDefaultNotAvailable)]
    ELSE IF module.run = "undefined"
    THEN [ok |-> FALSE, error |-> ErrorOf(MsgRunNotAvailable)]
    ELSE [ok |-> TRUE, error |-> NoError]

\* The two validation checks (sandbox.ts:120-132)
Validate(module) ==
    IF module.default \in {"undefined", "null"}
    THEN [ok |-> FALSE, error |-> ErrorOf(MsgDefaultNotAvailable)]
    ELSE IF module.run = "undefined" \/ module.run # "function"
    THEN [ok |-> FALSE, error |-> ErrorOf(MsgRunNotAvailable)]
    ELSE [ok |-> TRUE, error |-> NoError]

\* The catch block with the error thrown on as its message alone.
SandboxFailureBare(message) == [status |-> "rejected", message |-> message]

\* new Error(`Sandbox execution failed: ${errorMessage}`) (sandbox.ts:150)
SandboxFailure(message) == [status |-> "rejected", message |-> SandboxPrefix \o message]

\* The catch and finally blocks (sandbox.ts:149-164) of call c, entered with
\* the value `error`; the unlink of the temp file fails or not.
Fail(c, path, error, cons, unlinkFails) ==
    /\ console' = ConsoleAfterFinally(cons, sbCall[c].originalConsole)
    /\ sbCall' = [sbCall EXCEPT ![c].pc = "settled",
                                ![c].path = path,
                                ![c].outcome = SandboxFailure(errorMessage(error)),
                                ![c].thrown = error,
                                ![c].tempFileLeft = unlinkFails,
                                ![c].consoleAfter = console',
                                ![c].envAfter = processEnv']

SbInit ==
    /\ console = [f \in ConsoleFns |-> 0]
    /\ processEnv = HostEnv
    /\ envAllocs = 0
    /\ sbCall = [c \in CallIds |->
                    [pc |-> "idle", path |-> "none", originalConsole |-> <<>>,
                     consoleBefore |-> <<>>, envBefore |-> <<>>,
                     consoleAfter |-> <<>>, envAfter |-> <<>>,
                     logs |-> 0, overlapped |-> FALSE, tempFileLeft |-> FALSE,
                     module |-> NoModule, runInvoked |-> FALSE, thrown |-> NoError,
                     outcome |-> [status |-> "pending"]]]

\* sandbox.ts:65-117: from the call to the await of import()
SandboxStart(c) ==
    /\ sbCall[c].pc = "idle"
    /\ UNCHANGED <<escVars, arcVars, runVars, lnVars, serVars>>
    /\ LET others == {d \in CallIds \ {c} : Active(d)}
           entered == [sbCall EXCEPT ![c].originalConsole = console,
                                     ![c].consoleBefore = console,
                                     ![c].envBefore = processEnv,
                                     ![c].overlapped = (others # {})]
           marked == [d \in CallIds |->
                        IF d \in others THEN [entered[d] EXCEPT !.overlapped = TRUE]
                        ELSE entered[d]]
       IN  \E writeFails \in BOOLEAN, unlinkFails \in BOOLEAN :
             IF writeFails
             THEN \* writeFileSync throws: tempFile is set, so the unlink is tried
                  /\ console' = ConsoleAfterFinally(console, console)
                  /\ sbCall' = [marked EXCEPT ![c].pc = "settled",
                                              ![c].path = "write failed",
                                              ![c].outcome =
                                                  SandboxFailure(errorMessage(ErrorOf(MsgNoSpace))),
                                              ![c].thrown = ErrorOf(MsgNoSpace),
                                              ![c].tempFileLeft = FALSE,
                                              ![c].consoleAfter = console',
                                              ![c].envAfter = processEnv]
                  /\ UNCHANGED <<processEnv, envAllocs>>
             ELSE /\ unlinkFails = FALSE
                  /\ console' = captureConsole(c)
                  /\ envAllocs' = envAllocs + 1
                  /\ processEnv' = hideProcessEnv(envAllocs')
                  /\ sbCall' = [marked EXCEPT ![c].pc = "importing"]

\* sandbox.ts:117-141: the import settles; validation; run is invoked
ImportSettles(c) ==
    /\ sbCall[c].pc = "importing"
    /\ UNCHANGED <<processEnv, envAllocs, escVars, arcVars, runVars, lnVars, serVars>>
    /\ \E unlinkFails \in BOOLEAN :
         \/ \E error \in ImportErrors :
              Fail(c, "import failed", error, console, unlinkFails)
         \/ \E module \in Modules :
              LET checked == Validate(module)
                  loaded == [sbCall EXCEPT ![c].module = module]
              IN  IF ~checked.ok
                  THEN /\ console' = ConsoleAfterFinally(console, sbCall[c].originalConsole)
                       /\ sbCall' = [loaded EXCEPT
                                        ![c].pc = "settled",
                                        ![c].path = "validation failed",
                                        ![c].outcome =
                                            SandboxFailure(errorMessage(checked.error)),
                                        ![c].thrown = checked.error,
                                        ![c].tempFileLeft = unlinkFails,
                                        ![c].consoleAfter = console',
                                        ![c].envAfter = processEnv]
                  ELSE \* runner.run(contextObj): it throws at once or gives a promise
                       \/ /\ unlinkFails = FALSE
                          /\ sbCall' = [loaded EXCEPT ![c].pc = "running",
                                                      ![c].runInvoked = TRUE]
                          /\ UNCHANGED console
                       \/ \E error \in RunErrors :
                            /\ console' =
                                 ConsoleAfterFinally(console, sbCall[c].originalConsole)
                            /\ sbCall' = [loaded EXCEPT
                                            ![c].pc = "settled",
                                            ![c].path = "run threw at once",
                                            ![c].runInvoked = TRUE,
                                            ![c].outcome =
                                                SandboxFailure(errorMessage(error)),
                                            ![c].thrown = error,
                                            ![c].tempFileLeft = unlinkFails,
                                            ![c].consoleAfter = console',
                                            ![c].envAfter = processEnv]

\* sandbox.ts:141-164: run settles
RunSettles(c) ==
    /\ sbCall[c].pc = "running"
    /\ UNCHANGED <<processEnv, envAllocs, escVars, arcVars, runVars, lnVars, serVars>>
    /\ \E unlinkFails \in BOOLEAN :
         \/ \E error \in RunErrors : Fail(c, "run threw", error, console, unlinkFails)
         \/ \* restoreConsole(); console.log twice; return; finally
              LET restored == restoreConsole(sbCall[c].originalConsole)
                  logged == LogsAfterCalls(restored["log"], "log", 2)
              IN  /\ console' = ConsoleAfterFinally(restored, sbCall[c].originalConsole)
                  /\ sbCall' = [d \in CallIds |->
                        IF d = c
                        THEN [sbCall[c] EXCEPT !.pc = "settled",
                                               !.path = "run returned",
                                               !.logs = logged[c],
                                               !.outcome = [status |-> "resolved",
                                                            result |-> "value of run"],
                                               !.tempFileLeft = unlinkFails,
                                               !.consoleAfter = console',
                                               !.envAfter = processEnv]
                        ELSE [sbCall[d] EXCEPT !.logs = logged[d]]]

\* Code of the process (the host's, or the loaded module's) calls console[f].
ConsoleCall(f) ==
    /\ \A c \in WrapperChain(console[f], f) : sbCall[c].logs < MaxLogs
    /\ WrapperChain(console[f], f) # {}
    /\ sbCall' = [c \in CallIds |->
                    [sbCall[c] EXCEPT !.logs = LogsAfterCalls(console[f], f, 1)[c]]]
    /\ UNCHANGED <<console, processEnv, envAllocs, escVars, arcVars, runVars, lnVars, serVars>>

SbNext ==
    \/ \E c \in CallIds : SandboxStart(c)
    \/ \E c \in CallIds : ImportSettles(c)
    \/ \E c \in CallIds : RunSettles(c)
    \/ \E f \in ConsoleFns : ConsoleCall(f)

(***************************************************************************)
(* Text helpers: the String methods the launcher uses.                     *)
(***************************************************************************)
Whitespace == {" ", TAB, LF, CR}
LineTerminators == {LF, CR}

\* String.prototype.trim
Trim(s) ==
    LET solid == {i \in 1..Len(s) : s[i] \notin Whitespace}
    IN  IF solid = {} THEN <<>> ELSE SubSeq(s, Min(solid), Max(solid))

\* String.prototype.startsWith
StartsWith(s, prefix) == Len(s) >= Len(prefix) /\ SubSeq(s, 1, Len(prefix)) = prefix

\* String.prototype.substring(n)
Substring(s, n) == SubSeq(s, n + 1, Len(s))

\* String.prototype.split('\n'): the pieces between the newlines; one empty
\* piece for the empty string.
SplitLines(s) ==
    LET breaks == {i \in 1..Len(s) : s[i] = LF}
        \* the k-th newline, counting from 1; 0 before the first, Len + 1 after the last
        Break(k) == IF k = 0 THEN 0
                    ELSE IF k > Cardinality(breaks) THEN Len(s) + 1
                    ELSE CHOOSE i \in breaks : Cardinality({j \in breaks : j < i}) = k - 1
    IN  [k \in 1..(Cardinality(breaks) + 1) |-> SubSeq(s, Break(k - 1) + 1, Break(k) - 1)]

\* The decimal digits of a natural number, and String(code) of an exit code.
DigitChar(d) == <<"0", "1", "2", "3", "4", "5", "6", "7", "8", "9">>[d + 1]

RECURSIVE NatToText(_)
NatToText(n) == IF n < 10 THEN <<DigitChar(n)>> ELSE Append(NatToText(n \div 10), DigitChar(n % 10))

\* The code the 'close' event carries: a number, or null when a signal ended
\* the process.
ExitCode(n) == [exited |-> TRUE, n |-> n]
SignalExit == [exited |-> FALSE, n |-> 0]

CodeToText(code) ==
    IF ~code.exited THEN <<"n", "u", "l", "l">>
    ELSE IF code.n < 0 THEN <<"-">> \o NatToText(0 - code.n)
    ELSE NatToText(code.n)

(***************************************************************************)
(* sanitizeErrorMessage (runner.ts:57-70).  The two global replacements    *)
(* scan the text from the left: the leftmost match is taken, the scan goes *)
(* on after it.                                                            *)
(***************************************************************************)
MaxErrorLength == 500

\* The text with each match (a pair <<first, last>> of positions) replaced.
ReplaceMatches(s, matches, replacement) ==
    Flatten([i \in 1..Len(s) |->
        IF \E m \in matches : m[1] = i THEN replacement
        ELSE IF \E m \in matches : m[1] < i /\ i <= m[2] THEN <<>>
        ELSE <<s[i]>>])

\* The end of the longest run of characters after position i that are neither
\* whitespace nor a colon: what [^\s:]+ can cover.
SegmentEnd(s, i) ==
    LET stops == {j \in (i + 1)..Len(s) : s[j] \in Whitespace \cup {":"}}
    IN  IF stops = {} THEN Len(s) ELSE Min(stops) - 1

\* Where the match of /\/[^\s:]+\// that starts at the slash at i ends: the
\* last slash of the run, with at least one character in between; 0 for none.
PathMatchEnd(s, i) ==
    LET closing == {j \in (i + 2)..SegmentEnd(s, i) : s[j] = "/"}
    IN  IF closing = {} THEN 0 ELSE Max(closing)

\* The matches of /\/[^\s:]+\//g from position i on.
RECURSIVE PathMatches(_, _)
PathMatches(s, i) ==
    LET starts == {j \in i..Len(s) : s[j] = "/" /\ PathMatchEnd(s, j) > 0}
    IN  IF starts = {} THEN {}
        ELSE {<<Min(starts), PathMatchEnd(s, Min(starts))>>}
             \cup PathMatches(s, PathMatchEnd(s, Min(starts)) + 1)

\* The end of the run of whitespace that starts at i (i - 1 when s[i] is none).
WhitespaceEnd(s, i) ==
    LET stops == {j \in i..Len(s) : s[j] \notin Whitespace}
    IN  IF stops = {} THEN Max({Len(s), i - 1}) ELSE Min(stops) - 1

\* The end of the run of characters from i on that `.` matches.
LineEnd(s, i) ==
    LET stops == {j \in i..Len(s) : s[j] \in LineTerminators}
    IN  IF stops = {} THEN Max({Len(s), i - 1}) ELSE Min(stops) - 1

\* Where the match of /\s+at\s+.+/ that starts at the whitespace at i ends; 0
\* for none.  The first \s+ must reach the "at"; the second takes as much
\* whitespace as leaves `.+` a character of the same line.
StackMatchEnd(s, i) ==
    LET k == WhitespaceEnd(s, i)
        m == WhitespaceEnd(s, k + 3)
        starts == {n \in (k + 4)..(m + 1) : n <= Len(s) /\ s[n] \notin LineTerminators}
    IN  IF k >= i /\ k + 2 <= Len(s) /\ s[k + 1] = "a" /\ s[k + 2] = "t"
           /\ m >= k + 3 /\ starts # {}
        THEN LineEnd(s, Max(starts))
        ELSE 0

\* The matches of /\s+at\s+.+/g from position i on.
RECURSIVE StackMatches(_, _)
StackMatches(s, i) ==
    LET starts == {j \in i..Len(s) : s[j] \in Whitespace /\ StackMatchEnd(s, j) > 0}
    IN  IF starts = {} THEN {}
        ELSE {<<Min(starts), StackMatchEnd(s, Min(starts))>>}
             \cup StackMatches(s, StackMatchEnd(s, Min(starts)) + 1)

\* sanitizeErrorMessage without the two replacements.
sanitizeErrorMessageTrimOnly(error) ==
    Trim(IF Len(error) > MaxErrorLength
         THEN SubSeq(error, 1, MaxErrorLength) \o <<".", ".", ".">>
         ELSE error)

sanitizeErrorMessage(error) ==
    LET noPaths == ReplaceMatches(error, PathMatches(error, 1), <<".", ".", ".", "/">>)
        noStacks == ReplaceMatches(noPaths, StackMatches(noPaths, 1), <<>>)
        sanitized == IF Len(noStacks) > MaxErrorLength
                     THEN SubSeq(noStacks, 1, MaxErrorLength) \o <<".", ".", ".">>
                     ELSE noStacks
    IN  Trim(sanitized)

(***************************************************************************)
(* The texts of runner.ts, spelled character by character.                 *)
(***************************************************************************)
\* '__THYME_RESULT__' (runner.ts:269)
MARKER_RESULT ==
    <<"_", "_", "T", "H", "Y", "M", "E", "_", "R", "E", "S", "U", "L", "T", "_", "_">>

\* '__THYME_STATS__' (runner.ts:271)
MARKER_STATS ==
    <<"_", "_", "T", "H", "Y", "M", "E", "_", "S", "T", "A", "T", "S", "_", "_">>

\* runner.ts:279
MsgNoResult ==
    <<"N", "o", " ", "r", "e", "s", "u", "l", "t", " ", "f", "o", "u", "n", "d", " ",
      "i", "n", " ", "o", "u", "t", "p", "u", "t">>

\* runner.ts:304
MsgFailedToParse ==
    <<"F", "a", "i", "l", "e", "d", " ", "t", "o", " ", "p", "a", "r", "s", "e", " ",
      "r", "e", "s", "u", "l", "t", ":", " ">>

\* runner.ts:256
MsgProcessExited ==
    <<"P", "r", "o", "c", "e", "s", "s", " ", "e", "x", "i", "t", "e", "d", " ", "w",
      "i", "t", "h", " ", "c", "o", "d", "e", " ">>

\* runner.ts:314
MsgFailedToSpawn ==
    <<"F", "a", "i", "l", "e", "d", " ", "t", "o", " ", "s", "p", "a", "w", "n", " ",
      "D", "e", "n", "o", ":", " ">>

\* the message of the SyntaxError JSON.parse throws (its wording is the runtime's)
MsgJsonSyntax ==
    <<"U", "n", "e", "x", "p", "e", "c", "t", "e", "d", " ", "t", "o", "k", "e", "n",
      " ", "i", "n", " ", "J", "S", "O", "N">>

\* the message of the TypeError that reading a property of null throws
MsgNullStats ==
    <<"C", "a", "n", "n", "o", "t", " ", "r", "e", "a", "d", " ", "p", "r", "o", "p",
      "e", "r", "t", "i", "e", "s", " ", "o", "f", " ", "n", "u", "l", "l">>

\* error.message of the 'error' event when the deno binary is missing
MsgEnoent ==
    <<"s", "p", "a", "w", "n", " ", "d", "e", "n", "o", " ", "E", "N", "O", "E", "N",
      "T">>

(***************************************************************************)
(* JSON.parse (runner.ts:282-284), for the JSON the marker lines carry:    *)
(* null, true, false, integers, strings, arrays and objects.  A value is   *)
(* [t |-> type, v |-> ...]; an object holds a function from keys to values.*)
(* The parsers return [ok, v, next]: next is the position after the value. *)
(***************************************************************************)
JsonWhitespace == {" ", TAB, LF, CR}
Undefined == [t |-> "undefined"]
ParseError == [ok |-> FALSE, v |-> Undefined, next |-> 0]

SkipWhitespace(s, i) ==
    LET solid == {j \in i..Len(s) : s[j] \notin JsonWhitespace}
    IN  IF solid = {} THEN Max({Len(s) + 1, i}) ELSE Min(solid)

DigitValue(c) == CHOOSE d \in 0..9 : DigitChar(d) = c

RECURSIVE DigitsToNat(_, _, _)
DigitsToNat(s, lo, hi) ==
    IF lo > hi THEN 0 ELSE DigitsToNat(s, lo, hi - 1) * 10 + DigitValue(s[hi])

\* -?(0|[1-9][0-9]*) at position i
ParseNumber(s, i) ==
    LET first == IF s[i] = "-" THEN i + 1 ELSE i
        stops == {j \in first..Len(s) : s[j] \notin Digits}
        last == IF stops = {} THEN Len(s) ELSE Min(stops) - 1
    IN  IF last < first \/ (s[first] = "0" /\ last > first) THEN ParseError
        ELSE [ok |-> TRUE, next |-> last + 1,
              v |-> [t |-> "num",
                     v |-> IF s[i] = "-" THEN 0 - DigitsToNat(s, first, last)
                           ELSE DigitsToNat(s, first, last)]]

\* the characters of a string, from position i (after the opening quote)
RECURSIVE ParseString(_, _, _)
ParseString(s, i, acc) ==
    IF i > Len(s) \/ s[i] \in {LF, CR, TAB} THEN ParseError
    ELSE IF s[i] = DQ THEN [ok |-> TRUE, v |-> [t |-> "str", v |-> acc], next |-> i + 1]
    ELSE IF s[i] # BSL THEN ParseString(s, i + 1, Append(acc, s[i]))
    ELSE IF i = Len(s) THEN ParseError
    ELSE CASE s[i + 1] \in {DQ, BSL, "/"} -> ParseString(s, i + 2, Append(acc, s[i + 1]))
           [] s[i + 1] = "n" -> ParseString(s, i + 2, Append(acc, LF))
           [] s[i + 1] = "r" -> ParseString(s, i + 2, Append(acc, CR))
           [] s[i + 1] = "t" -> ParseString(s, i + 2, Append(acc, TAB))
           [] OTHER -> ParseError

ParseLiteral(s, i, word, value) ==
    IF i + Len(word) - 1 <= Len(s) /\ SubSeq(s, i, i + Len(word) - 1) = word
    THEN [ok |-> TRUE, v |-> value, next |-> i + Len(word)]
    ELSE ParseError

\* acc with the member key |-> value added, or replaced: the last of two
\* members with one key stays
PutMember(acc, key, value) ==
    [n \in DOMAIN acc \cup {key} |-> IF n = key THEN value ELSE acc[n]]

RECURSIVE ParseValue(_, _)
RECURSIVE ParseMembers(_, _, _)
RECURSIVE ParseElements(_, _, _)

\* after a member, at position e: a comma and the next member, or the end
MemberEnd(s, e, members) ==
    IF e > Len(s) THEN ParseError
    ELSE IF s[e] = "," THEN ParseMembers(s, SkipWhitespace(s, e + 1), members)
    ELSE IF s[e] = "}"
         THEN [ok |-> TRUE, v |-> [t |-> "obj", v |-> members], next |-> e + 1]
    ELSE ParseError

MemberValue(s, key, val, acc) ==
    IF ~val.ok THEN ParseError
    ELSE MemberEnd(s, SkipWhitespace(s, val.next), PutMember(acc, key.v.v, val.v))

MemberColon(s, key, c, acc) ==
    IF c > Len(s) \/ s[c] # ":" THEN ParseError
    ELSE MemberValue(s, key, ParseValue(s, c + 1), acc)

MemberKey(s, key, acc) ==
    IF ~key.ok THEN ParseError
    ELSE MemberColon(s, key, SkipWhitespace(s, key.next), acc)

\* the members of an object, from position k (a key is due)
ParseMembers(s, k, acc) ==
    IF k > Len(s) \/ s[k] # DQ THEN ParseError
    ELSE MemberKey(s, ParseString(s, k + 1, <<>>), acc)

\* after an element, at position e: a comma and the next element, or the end
ElementEnd(s, e, elements) ==
    IF e > Len(s) THEN ParseError
    ELSE IF s[e] = "," THEN ParseElements(s, e + 1, elements)
    ELSE IF s[e] = "]"
         THEN [ok |-> TRUE, v |-> [t |-> "arr", v |-> elements], next |-> e + 1]
    ELSE ParseError

ElementValue(s, val, acc) ==
    IF ~val.ok THEN ParseError
    ELSE ElementEnd(s, SkipWhitespace(s, val.next), Append(acc, val.v))

\* the elements of an array, from position i (a value is due)
ParseElements(s, i, acc) == ElementValue(s, ParseValue(s, i), acc)

\* an object, from position k (after the brace and the white space)
ObjectAt(s, k) ==
    IF k <= Len(s) /\ s[k] = "}"
    THEN [ok |-> TRUE, v |-> [t |-> "obj", v |-> <<>>], next |-> k + 1]
    ELSE ParseMembers(s, k, <<>>)

\* an array, from position k (after the bracket and the white space)
ArrayAt(s, k) ==
    IF k <= Len(s) /\ s[k] = "]"
    THEN [ok |-> TRUE, v |-> [t |-> "arr", v |-> <<>>], next |-> k + 1]
    ELSE ParseElements(s, k, <<>>)

ValueAt(s, j) ==
    IF j > Len(s) THEN ParseError
    ELSE CASE s[j] = "{" -> ObjectAt(s, SkipWhitespace(s, j + 1))
           [] s[j] = "[" -> ArrayAt(s, SkipWhitespace(s, j + 1))
           [] s[j] = DQ -> ParseString(s, j + 1, <<>>)
           [] s[j] \in Digits \cup {"-"} -> ParseNumber(s, j)
           [] s[j] = "n" -> ParseLiteral(s, j, <<"n", "u", "l", "l">>, [t |-> "null"])
           [] s[j] = "t" ->
                ParseLiteral(s, j, <<"t", "r", "u", "e">>, [t |-> "bool", v |-> TRUE])
           [] s[j] = "f" ->
                ParseLiteral(s, j, <<"f", "a", "l", "s", "e">>, [t |-> "bool", v |-> FALSE])
           [] OTHER -> ParseError

ParseValue(s, i) == ValueAt(s, SkipWhitespace(s, i))

\* JSON.parse(text): the value, or the SyntaxError it throws
JSONParse(text) ==
    LET r == ParseValue(text, 1) IN
    IF r.ok /\ SkipWhitespace(text, r.next) > Len(text)
    THEN [ok |-> TRUE, v |-> r.v]
    ELSE [ok |-> FALSE, message |-> MsgJsonSyntax]

\* value.name of a parsed value: undefined unless the value is an object that
\* has the member
Member(value, name) ==
    IF value.t = "obj" /\ name \in DOMAIN value.v THEN value.v[name] ELSE Undefined

(***************************************************************************)
(* runInDeno (runner.ts:76-318): the spawned process, the stream handlers, *)
(* the close and error handlers, and the promise they resolve.             *)
(***************************************************************************)
KeyExecutionTime ==
    <<"e", "x", "e", "c", "u", "t", "i", "o", "n", "T", "i", "m", "e">>
KeyMemoryUsed ==
    <<"m", "e", "m", "o", "r", "y", "U", "s", "e", "d">>
KeyRpcRequestCount ==
    <<"r", "p", "c", "R", "e", "q", "u", "e", "s", "t", "C", "o", "u", "n", "t">>

\* What a process may write to its standard output:
\* nothing written
OutEmpty ==
    <<>>
\* a log line and no result
OutLogsOnly ==
    <<"h", "i", LF>>
\* a log line, the result and the statistics
OutNormal ==
    <<"h", "i", LF, "_", "_", "T", "H", "Y", "M", "E", "_", "R", "E", "S", "U", "L",
      "T", "_", "_", "{", DQ, "c", "a", "n", "E", "x", "e", "c", DQ, ":", "f", "a",
      "l", "s", "e", "}", LF, "_", "_", "T", "H", "Y", "M", "E", "_", "S", "T", "A",
      "T", "S", "_", "_", "{", DQ, "m", "e", "m", "o", "r", "y", "U", "s", "e", "d",
      DQ, ":", "7", "}", LF>>
\* a first line with spaces before the result marker
OutIndentedFirst ==
    <<" ", " ", "_", "_", "T", "H", "Y", "M", "E", "_", "R", "E", "S", "U", "L", "T",
      "_", "_", "{", DQ, "c", "a", "n", "E", "x", "e", "c", DQ, ":", "f", "a", "l",
      "s", "e", "}", LF>>
\* a later line with spaces before the result marker
OutIndentedLater ==
    <<"h", "i", LF, " ", " ", "_", "_", "T", "H", "Y", "M", "E", "_", "R", "E", "S",
      "U", "L", "T", "_", "_", "{", DQ, "c", "a", "n", "E", "x", "e", "c", DQ, ":",
      "f", "a", "l", "s", "e", "}", LF>>
\* two result lines
OutTwoResults ==
    <<"_", "_", "T", "H", "Y", "M", "E", "_", "R", "E", "S", "U", "L", "T", "_", "_",
      "{", DQ, "c", "a", "n", "E", "x", "e", "c", DQ, ":", "f", "a", "l", "s", "e",
      "}", LF, "_", "_", "T", "H", "Y", "M", "E", "_", "R", "E", "S", "U", "L", "T",
      "_", "_", "n", "u", "l", "l", LF>>
\* statistics with a negative memory figure
OutNegativeStats ==
    <<"_", "_", "T", "H", "Y", "M", "E", "_", "R", "E", "S", "U", "L", "T", "_", "_",
      "{", DQ, "c", "a", "n", "E", "x", "e", "c", DQ, ":", "f", "a", "l", "s", "e",
      "}", LF, "_", "_", "T", "H", "Y", "M", "E", "_", "S", "T", "A", "T", "S", "_",
      "_", "{", DQ, "m", "e", "m", "o", "r", "y", "U", "s", "e", "d", DQ, ":", "-",
      "5", "}", LF>>
\* the result line of a task that returned undefined
OutUndefinedResult ==
    <<"_", "_", "T", "H", "Y", "M", "E", "_", "R", "E", "S", "U", "L", "T", "_", "_",
      "u", "n", "d", "e", "f", "i", "n", "e", "d", LF>>
\* a result line with an empty payload
OutEmptyResult ==
    <<"h", "i", LF, "_", "_", "T", "H", "Y", "M", "E", "_", "R", "E", "S", "U", "L",
      "T", "_", "_", LF>>
\* statistics that are null
OutNullStats ==
    <<"_", "_", "T", "H", "Y", "M", "E", "_", "R", "E", "S", "U", "L", "T", "_", "_",
      "{", DQ, "c", "a", "n", "E", "x", "e", "c", DQ, ":", "f", "a", "l", "s", "e",
      "}", LF, "_", "_", "T", "H", "Y", "M", "E", "_", "S", "T", "A", "T", "S", "_",
      "_", "n", "u", "l", "l", LF>>
\* lines ended by CR LF
OutCrLf ==
    <<" ", "h", "i", " ", CR, LF, "_", "_", "T", "H", "Y", "M", "E", "_", "R", "E",
      "S", "U", "L", "T", "_", "_", "{", DQ, "c", "a", "n", "E", "x", "e", "c", DQ,
      ":", "f", "a", "l", "s", "e", "}", CR, LF>>
\* a result line alone
OutResultOnly ==
    <<"_", "_", "T", "H", "Y", "M", "E", "_", "R", "E", "S", "U", "L", "T", "_", "_",
      "n", "u", "l", "l", LF>>

StdoutTexts ==
    {OutEmpty, OutLogsOnly, OutNormal, OutIndentedFirst,
     OutIndentedLater, OutTwoResults, OutNegativeStats, OutUndefinedResult,
     OutEmptyResult, OutNullStats, OutCrLf, OutResultOnly}

\* What a process may write to its standard error:
\* a warning of a run that succeeds
ErrWarning ==
    <<"W", "a", "r", "n", LF>>
\* an uncaught error with a stack frame and a path
ErrUncaught ==
    <<"E", "r", "r", "o", "r", ":", " ", "b", "o", "o", "m", LF, " ", " ", " ", " ",
      "a", "t", " ", "f", "i", "l", "e", ":", "/", "/", "/", "h", "o", "m", "e", "/",
      "u", "/", "t", ".", "t", "s", ":", "3", ":", "9", LF>>
\* white space only
ErrBlank ==
    <<" ", LF>>
\* a message one character longer than sanitizeErrorMessage keeps
ErrLong == [i \in 1..(MaxErrorLength + 1) |-> "x"]

\* runner.ts:251-259: the result of a run whose process closed with a code
\* other than 0.  `stderr || ...` takes the second text when stderr is empty.
ExitFailureRaw(code, err, lg) ==
    [success |-> FALSE, logs |-> lg,
     error |-> IF err # <<>> THEN err ELSE MsgProcessExited \o CodeToText(code)]

ExitFailure(code, err, lg) ==
    [success |-> FALSE, logs |-> lg,
     error |-> sanitizeErrorMessage(
                   IF err # <<>> THEN err ELSE MsgProcessExited \o CodeToText(code))]

\* runner.ts:299-307: the result of a run whose output could not be read
ParseFailureBare(message, lg) ==
    [success |-> FALSE, logs |-> lg, error |-> sanitizeErrorMessage(message)]

ParseFailure(message, lg) ==
    [success |-> FALSE, logs |-> lg,
     error |-> sanitizeErrorMessage(MsgFailedToParse \o message)]

\* runner.ts:310-316: the result of a run whose process could not be spawned
SpawnFailure(message, lg) ==
    [success |-> FALSE, logs |-> lg,
     error |-> sanitizeErrorMessage(MsgFailedToSpawn \o message)]

\* the lines, each with its white space removed before it is looked at
OutputLinesTrimmed(out) ==
    [i \in DOMAIN SplitLines(Trim(out)) |-> Trim(SplitLines(Trim(out))[i])]

\* runner.ts:264
OutputLines(out) == SplitLines(Trim(out))

\* runner.ts:269, 271, 273: the three branches of the loop over the lines
IsResultLine(line) == StartsWith(line, MARKER_RESULT)
IsStatsLine(line) == ~IsResultLine(line) /\ StartsWith(line, MARKER_STATS)
IsLogLine(line) == ~IsResultLine(line) /\ ~IsStatsLine(line) /\ Trim(line) # <<>>

\* runner.ts:265-276: resultLine and statsLine after the loop, marked being
\* the positions of the lines that took the branch.  Each such line assigns
\* the variable again, so the last one stays; set is FALSE when the variable
\* is still undefined.
MarkerPayload(lines, marked, marker) ==
    IF marked = {} THEN [set |-> FALSE, text |-> <<>>]
    ELSE [set |-> TRUE, text |-> Substring(lines[Max(marked)], Len(marker))]

\* the loop pushing each kept line as it stands
LogLinesUntrimmed(lines) == SelectSeq(lines, IsLogLine)

\* runner.ts:273-275: the lines the loop pushes to logs, trimmed
LogLines(lines) ==
    LET kept == SelectSeq(lines, IsLogLine)
    IN  [i \in 1..Len(kept) |-> Trim(kept[i])]

\* runner.ts:283-289: the statistics object used when there is no stats line
NoStats ==
    [t |-> "obj",
     v |-> [k \in {KeyExecutionTime, KeyMemoryUsed, KeyRpcRequestCount} |-> Undefined]]

\* runner.ts:262-307: the close handler for exit code 0.  It returns the
\* value it resolves with and the logs array as the loop leaves it.
ReadOutput(out, lg) ==
    LET lines == OutputLines(out)
        resultLine == MarkerPayload(lines, {i \in DOMAIN lines : IsResultLine(lines[i])},
                                    MARKER_RESULT)
        statsLine == MarkerPayload(lines, {i \in DOMAIN lines : IsStatsLine(lines[i])},
                                   MARKER_STATS)
        logs2 == lg \o LogLines(lines)
        result == JSONParse(resultLine.text)
        stats == IF statsLine.set /\ statsLine.text # <<>>
                 THEN JSONParse(statsLine.text)
                 ELSE [ok |-> TRUE, v |-> NoStats]
        value ==
            IF ~resultLine.set \/ resultLine.text = <<>>
                THEN ParseFailure(MsgNoResult, logs2)
            ELSE IF ~result.ok THEN ParseFailure(result.message, logs2)
            ELSE IF ~stats.ok THEN ParseFailure(stats.message, logs2)
            ELSE IF stats.v.t = "null" THEN ParseFailure(MsgNullStats, logs2)
            ELSE [success |-> TRUE,
                  result |-> result.v,
                  logs |-> logs2,
                  executionTime |-> Member(stats.v, KeyExecutionTime),
                  memoryUsed |-> Member(stats.v, KeyMemoryUsed),
                  rpcRequestCount |-> Member(stats.v, KeyRpcRequestCount)]
    IN  [value |-> value, logs |-> logs2]

\* runner.ts:250-308: the close handler
OnClose(code, out, err, lg) ==
    IF code # ExitCode(0)
    THEN [value |-> ExitFailure(code, err, lg), logs |-> lg]
    ELSE ReadOutput(out, lg)

\* a promise that every call of resolve settles again
ResolveAgain(p, value) == [state |-> "resolved", value |-> value]

\* resolve(value) of the promise of runner.ts:228: only the first call settles it
Resolve(p, value) ==
    IF p.state = "pending" THEN [state |-> "resolved", value |-> value] ELSE p


(***************************************************************************)
(* The last lines of the generated program (runner.ts:205-221): what it    *)
(* writes to standard output when task.run has returned.                   *)
(***************************************************************************)
\* the heap growth reported when the raw figure is used as it is
memoryUsedRaw(startMemory, endMemory) == endMemory - startMemory

\* runner.ts:218: Math.max(0, endMemory - startMemory)
memoryUsed(startMemory, endMemory) == Max({0, endMemory - startMemory})

\* JSON.stringify of an integer
IntToText(n) == IF n < 0 THEN <<"-">> \o NatToText(0 - n) ELSE NatToText(n)

\* runner.ts:221: JSON.stringify({ executionTime, memoryUsed, rpcRequestCount })
StatsJson(time, memory, requests) ==
    <<"{", DQ>> \o KeyExecutionTime \o <<DQ, ":">> \o IntToText(time)
    \o <<",", DQ>> \o KeyMemoryUsed \o <<DQ, ":">> \o IntToText(memory)
    \o <<",", DQ>> \o KeyRpcRequestCount \o <<DQ, ":">> \o IntToText(requests)
    \o <<"}">>

\* JSON.stringify(result) of a task that returned { canExec: false }
ResultJson ==
    <<"{", DQ, "c", "a", "n", "E", "x", "e", "c", DQ, ":", "f", "a", "l", "s", "e", "}">>

\* runner.ts:220-221: the two console.log calls, for a run of 3 ms with no
\* request that found the heap at startMemory before and endMemory after
ProgramOutput(startMemory, endMemory) ==
    MARKER_RESULT \o ResultJson \o <<LF>>
    \o MARKER_STATS \o StatsJson(3, memoryUsed(startMemory, endMemory), 0) \o <<LF>>

\* heap sizes before and after task.run: grown, unchanged, shrunk by a collection
HeapSamples == {<<10, 17>>, <<10, 10>>, <<10, 5>>}

(***************************************************************************)
(* The runs explored.  A process is what it has yet to write to each       *)
(* stream and how it ends: with an exit code, by a signal, or not at all   *)
(* (closes = FALSE: a task that never returns).  spawned = FALSE is a deno *)
(* binary that cannot be started: 'error' is emitted, then 'close' with a  *)
(* negative code.                                                          *)
(***************************************************************************)
MaxTimeout == 1
MaxElapsed == MaxTimeout + 1
ENOENT == 0 - 2

\* The streams carry bytes.  An ASCII character is its own byte; the letter
\* e with an acute accent is the two bytes C3 A9 in UTF-8.
ByteC3 == "byte C3"
ByteA9 == "byte A9"
EAcute == "e acute"
ReplacementChar == "U+FFFD"

\* data.toString() of a chunk (runner.ts:243, 247): the UTF-8 decoding of the
\* bytes of this chunk alone.  A lead byte the chunk ends with, and a
\* continuation byte the chunk starts with, each decode to U+FFFD.
toString(data) ==
    IF \A i \in DOMAIN data : data[i] \notin {ByteC3, ByteA9} THEN data
    ELSE Flatten([i \in DOMAIN data |->
            IF data[i] = ByteC3
            THEN IF i < Len(data) /\ data[i + 1] = ByteA9
                 THEN <<EAcute>> ELSE <<ReplacementChar>>
            ELSE IF data[i] = ByteA9
            THEN IF i > 1 /\ data[i - 1] = ByteC3 THEN <<>> ELSE <<ReplacementChar>>
            ELSE <<data[i]>>])

\* the result line of a task that returned { m: "<e acute>" }, as bytes
OutAccented ==
    <<"_", "_", "T", "H", "Y", "M", "E", "_", "R", "E", "S", "U", "L", "T", "_", "_", "{", DQ, "m", DQ, ":", DQ, ByteC3, ByteA9, DQ, "}", LF>>

\* What a task can write to standard output itself: a log line, a line with
\* spaces before a result marker, a result line, a statistics line, and text
\* with no line end.
TaskHi ==
    <<"h", "i", LF>>
TaskIndentedResult ==
    <<" ", "_", "_", "T", "H", "Y", "M", "E", "_", "R", "E", "S", "U", "L", "T", "_",
      "_", "1", LF>>
TaskResultLine ==
    <<"_", "_", "T", "H", "Y", "M", "E", "_", "R", "E", "S", "U", "L", "T", "_", "_",
      "1", LF>>
TaskStatsLine ==
    <<"_", "_", "T", "H", "Y", "M", "E", "_", "S", "T", "A", "T", "S", "_", "_", "{",
      "}", LF>>
TaskBye ==
    <<"b", "y", "e">>

\* What the task writes before task.run returns, and what it writes after
\* the program's two lines (from a timer or a promise nobody awaited) before
\* the process exits.
NoTaskWrites == [before |-> <<>>, after |-> <<>>]
TaskWrites ==
    {[before |-> TaskHi, after |-> <<>>],
     [before |-> <<>>, after |-> TaskIndentedResult],
     [before |-> TaskStatsLine, after |-> <<>>],
     [before |-> <<>>, after |-> TaskResultLine],
     [before |-> <<>>, after |-> TaskStatsLine],
     [before |-> <<>>, after |-> TaskBye]}

\* allOut and allErr are the bytes the process writes in all; program is
\* what the generated program wrote of them, and task what the task wrote.
Process(out, err, code) ==
    [state |-> "running", spawned |-> TRUE, closes |-> TRUE,
     out |-> out, err |-> err, code |-> code,
     allOut |-> out, allErr |-> err, program |-> <<>>, task |-> NoTaskWrites]

\* A run of the generated program whose task writes to standard output too.
TaskRun(task, program) ==
    [Process(task.before \o program \o task.after, <<>>, ExitCode(0))
        EXCEPT !.program = program, !.task = task]

Processes ==
    {Process(out, err, ExitCode(0)) : out \in StdoutTexts, err \in {<<>>, ErrWarning}}
    \cup {Process(out, err, code) :
            out \in {<<>>, OutResultOnly},
            err \in {<<>>, ErrUncaught, ErrBlank},
            code \in {ExitCode(1), SignalExit}}
    \cup {Process(<<>>, ErrLong, ExitCode(1))}
    \cup {Process(OutLogsOnly, ErrUncaught, ExitCode(1))}
    \cup {TaskRun(NoTaskWrites, ProgramOutput(heap[1], heap[2])) : heap \in HeapSamples}
    \cup {TaskRun(task, ProgramOutput(10, 17)) : task \in TaskWrites}
    \cup {Process(OutAccented, <<>>, ExitCode(0))}
    \cup {[Process(OutLogsOnly, <<>>, ExitCode(0)) EXCEPT !.closes = FALSE]}
    \cup {[Process(<<>>, <<>>, ExitCode(ENOENT)) EXCEPT !.spawned = FALSE]}

\* runner.ts:76-248: the state when runInDeno has returned its promise
RunInit ==
    /\ config \in {[memory |-> 128, timeout |-> s, network |-> TRUE] : s \in 1..MaxTimeout}
    /\ proc \in Processes
    /\ stdout = <<>>
    /\ stderr = <<>>
    /\ logs = <<>>
    /\ promise = [state |-> "pending"]
    /\ resolveCalls = 0
    /\ elapsed = 0

\* runner.ts:242-244: a chunk of standard output arrives
StdoutData ==
    /\ proc.state = "running" /\ proc.spawned
    /\ \E n \in 1..Len(proc.out) :
          /\ stdout' = stdout \o toString(SubSeq(proc.out, 1, n))
          /\ proc' = [proc EXCEPT !.out = Substring(proc.out, n)]
    /\ UNCHANGED <<stderr, logs, promise, resolveCalls, elapsed, config>>
    /\ UNCHANGED <<escVars, arcVars, sbVars, lnVars, serVars>>

\* runner.ts:246-248: a chunk of standard error arrives
StderrData ==
    /\ proc.state = "running" /\ proc.spawned
    /\ \E n \in 1..Len(proc.err) :
          /\ stderr' = stderr \o toString(SubSeq(proc.err, 1, n))
          /\ proc' = [proc EXCEPT !.err = Substring(proc.err, n)]
    /\ UNCHANGED <<stdout, logs, promise, resolveCalls, elapsed, config>>
    /\ UNCHANGED <<escVars, arcVars, sbVars, lnVars, serVars>>

\* runner.ts:250-308: the process has ended and its streams are closed
Close ==
    /\ \/ proc.state = "running" /\ proc.spawned /\ proc.closes
       \/ proc.state = "errored"
    /\ proc.out = <<>> /\ proc.err = <<>>
    /\ LET handled == OnClose(proc.code, stdout, stderr, logs)
       IN  /\ promise' = Resolve(promise, handled.value)
           /\ logs' = handled.logs
    /\ resolveCalls' = resolveCalls + 1
    /\ proc' = [proc EXCEPT !.state = "closed"]
    /\ UNCHANGED <<stdout, stderr, elapsed, config>>
    /\ UNCHANGED <<escVars, arcVars, sbVars, lnVars, serVars>>

\* runner.ts:310-316: the process could not be spawned
ErrorEvent ==
    /\ proc.state = "running" /\ ~proc.spawned
    /\ promise' = Resolve(promise, SpawnFailure(MsgEnoent, logs))
    /\ resolveCalls' = resolveCalls + 1
    /\ proc' = [proc EXCEPT !.state = "errored"]
    /\ UNCHANGED <<stdout, stderr, logs, elapsed, config>>
    /\ UNCHANGED <<escVars, arcVars, sbVars, lnVars, serVars>>

\* A second passes while the process runs.  runInDeno starts no timer and
\* has no handler for the passing of time (runner.ts:228-317), so nothing
\* else changes.
Tick ==
    /\ proc.state = "running"
    /\ elapsed < MaxElapsed
    /\ elapsed' = elapsed + 1
    /\ UNCHANGED <<proc, stdout, stderr, logs, promise, resolveCalls, config>>
    /\ UNCHANGED <<escVars, arcVars, sbVars, lnVars, serVars>>

RunNext == StdoutData \/ StderrData \/ Close \/ ErrorEvent \/ Tick

(***************************************************************************)
(* runInDeno (runner.ts:76-153): what is prepared before the process is    *)
(* spawned: the task directory, the sanitized arguments, the flags.        *)
(***************************************************************************)
\* An absolute, normalized path with the given segments; resolve() returns
\* such a path as it is (runner.ts:81-82).
PathOf(segments) == Flatten([i \in DOMAIN segments |-> <<"/">> \o segments[i]])

\* path.dirname of an absolute, normalized path (runner.ts:81)
dirname(path) ==
    LET last == Max({i \in DOMAIN path : path[i] = "/"})
    IN  IF last = 1 THEN <<"/">> ELSE SubSeq(path, 1, last - 1)

\* The pieces of s between the occurrences of sep.
SplitAt(s, sep) ==
    LET breaks == {i \in 1..Len(s) : s[i] = sep}
        Break(k) == IF k = 0 THEN 0
                    ELSE IF k > Cardinality(breaks) THEN Len(s) + 1
                    ELSE CHOOSE i \in breaks : Cardinality({j \in breaks : j < i}) = k - 1
    IN  [k \in 1..(Cardinality(breaks) + 1) |-> SubSeq(s, Break(k - 1) + 1, Break(k) - 1)]

\* The value of --import-map (runner.ts:131-132), shortened: it does not
\* depend on the inputs.
importMapDataUrl ==
    <<"d", "a", "t", "a", ":", "a", "p", "p", "l", "i", "c", "a", "t", "i", "o", "n",
      "/", "j", "s", "o", "n", ",", "%", "7", "B", "%", "7", "D">>

\* One argument of the command line: `${name}=${value}`, or the name alone
\* when there is no value.
Flag(name, value) == [name |-> name, value |-> value]
Bare(name) == [name |-> name, value |-> <<>>]

\* runner.ts:134-153: the arguments deno is spawned with.  `if (config.memory)`
\* is false for 0.
DenoFlags(cfg, taskDir) ==
    <<Bare("run"), Bare("--no-prompt"),
      Flag("--import-map", importMapDataUrl),
      Flag("--allow-read", taskDir)>>
    \o (IF cfg.memory # 0
        THEN <<Flag("--v8-flags",
                    <<"-", "-", "m", "a", "x", "-", "o", "l", "d", "-", "s", "p", "a", "c", "e",
                      "-", "s", "i", "z", "e", "=">> \o IntToText(cfg.memory))>>
        ELSE <<>>)
    \o (IF cfg.network THEN <<Bare("--allow-net")>> ELSE <<>>)
    \o <<Bare("-")>>

\* The paths deno grants for --allow-read=<value>: the value is a list of
\* paths separated by commas.
AllowedPaths(value) == Range(SplitAt(value, ","))

(***************************************************************************)
(* sanitizeArgs (runner.ts:41-51).  A value of the program is a record     *)
(* [t |-> type, v |-> ...] as JSON.parse returns it, and besides: the      *)
(* number NaN, a function, a symbol, a bigint, undefined, and a member     *)
(* that refers back to an object that holds it ("cycle").                  *)
(***************************************************************************)
JsNull == [t |-> "null"]
JsNum(n) == [t |-> "num", v |-> n]
JsStr(s) == [t |-> "str", v |-> s]
JsBool(b) == [t |-> "bool", v |-> b]
JsObj(members) == [t |-> "obj", v |-> members]
JsArr(elements) == [t |-> "arr", v |-> elements]
JsNaN == [t |-> "nan"]
JsFunction == [t |-> "function"]
JsSymbol == [t |-> "symbol"]
JsBigInt == [t |-> "bigint"]
JsCycle == [t |-> "cycle"]

\* typeof value === 'object' for a value other than null
IsObject(value) == value.t \in {"obj", "arr", "cycle"}

\* the values JSON.stringify leaves out of a mapping and writes as null in a
\* sequence
Unserializable == {"undefined", "function", "symbol"}

\* a string between quotes with no escape
QuoteJsonRaw(s) == <<DQ>> \o s \o <<DQ>>

\* JSON.stringify of a string: the quotes and the escapes
QuoteJson(s) ==
    <<DQ>> \o Flatten([i \in DOMAIN s |->
                 CASE s[i] = DQ -> <<BSL, DQ>>
                   [] s[i] = BSL -> <<BSL, BSL>>
                   [] s[i] = LF -> <<BSL, "n">>
                   [] s[i] = CR -> <<BSL, "r">>
                   [] s[i] = TAB -> <<BSL, "t">>
                   [] OTHER -> <<s[i]>>]) \o <<DQ>>

\* the pieces with a comma between each two
JoinCommas(pieces) ==
    Flatten([i \in DOMAIN pieces |-> IF i = 1 THEN pieces[i] ELSE <<",">> \o pieces[i]])

\* the members of a set in some order
Enumerate(S) == CHOOSE s \in [1..Cardinality(S) -> S] : Range(s) = S

\* JSON.stringify(value) (runner.ts:47): [threw |-> TRUE] for the TypeError a
\* bigint or a circular structure raises, else the text
RECURSIVE JSONStringify(_)
JSONStringify(value) ==
    CASE value.t = "null" -> [threw |-> FALSE, text |-> <<"n", "u", "l", "l">>]
      [] value.t = "nan" -> [threw |-> FALSE, text |-> <<"n", "u", "l", "l">>]
      [] value.t = "bool" ->
           [threw |-> FALSE,
            text |-> IF value.v THEN <<"t", "r", "u", "e">> ELSE <<"f", "a", "l", "s", "e">>]
      [] value.t = "num" -> [threw |-> FALSE, text |-> IntToText(value.v)]
      [] value.t = "str" -> [threw |-> FALSE, text |-> QuoteJson(value.v)]
      [] value.t \in {"bigint", "cycle"} -> [threw |-> TRUE, text |-> <<>>]
      [] value.t = "arr" ->
           LET parts == [i \in DOMAIN value.v |->
                            IF value.v[i].t \in Unserializable
                            THEN [threw |-> FALSE, text |-> <<"n", "u", "l", "l">>]
                            ELSE JSONStringify(value.v[i])]
           IN  IF \E i \in DOMAIN parts : parts[i].threw
               THEN [threw |-> TRUE, text |-> <<>>]
               ELSE [threw |-> FALSE,
                     text |-> <<"[">> \o JoinCommas([i \in DOMAIN parts |-> parts[i].text])
                              \o <<"]">>]
      [] value.t = "obj" ->
           LET keys == Enumerate({k \in DOMAIN value.v : value.v[k].t \notin Unserializable})
               parts == [i \in DOMAIN keys |-> JSONStringify(value.v[keys[i]])]
           IN  IF \E i \in DOMAIN parts : parts[i].threw
               THEN [threw |-> TRUE, text |-> <<>>]
               ELSE [threw |-> FALSE,
                     text |-> <<"{">>
                              \o JoinCommas([i \in DOMAIN parts |->
                                     QuoteJson(keys[i]) \o <<":">> \o parts[i].text])
                              \o <<"}">>]

\* JSON.parse(JSON.stringify(args)) (runner.ts:47): the value, or threw
RoundTrip(value) ==
    IF JSONStringify(value).threw \/ ~JSONParse(JSONStringify(value).text).ok
    THEN [threw |-> TRUE, value |-> Undefined]
    ELSE [threw |-> FALSE, value |-> JSONParse(JSONStringify(value).text).v]

\* sanitizeArgs with the round trip outside any try
sanitizeArgsNoCatch(value) ==
    IF value.t \in {"null", "undefined"} THEN [threw |-> FALSE, value |-> value]
    ELSE IF ~IsObject(value) THEN [threw |-> FALSE, value |-> value]
    ELSE RoundTrip(value)

\* runner.ts:41-51: how the call completes, and the value it returns
sanitizeArgs(value) ==
    IF value.t \in {"null", "undefined"} THEN [threw |-> FALSE, value |-> value]
    ELSE IF ~IsObject(value) THEN [threw |-> FALSE, value |-> value]
    ELSE IF RoundTrip(value).threw THEN [threw |-> FALSE, value |-> JsObj(<<>>)]
    ELSE [threw |-> FALSE, value |-> RoundTrip(value).value]

(***************************************************************************)
(* The calls of runInDeno explored.                                        *)
(***************************************************************************)
MaxPathSegments == 3

\* names of files and directories; one holds a comma
SegmentNames == {<<"a">>, <<"t">>, <<"x", ",">>}
TaskPaths == {PathOf(segments) : segments \in SeqsUpTo(SegmentNames, MaxPathSegments) \ {<<>>}}
TaskConfigs ==
    {[memory |-> m, timeout |-> 30, network |-> n] : m \in {0, 128}, n \in BOOLEAN}

ArgLeaves ==
    {JsNull, Undefined, JsNum(1), JsStr(<<"x", DQ>>), JsBool(TRUE), JsNaN,
     JsFunction, JsSymbol, JsBigInt, JsCycle}
ArgMembers ==
    ArgLeaves
    \cup {JsArr(<<leaf>>) : leaf \in ArgLeaves}
    \cup {JsObj(<<"c">> :> leaf) : leaf \in ArgLeaves}
ArgSamples ==
    (ArgLeaves \ {JsCycle})
    \cup {JsObj(<<>>), JsArr(<<>>)}
    \cup {JsObj(<<"a">> :> JsNum(1) @@ <<"b">> :> m) : m \in ArgMembers}
    \cup {JsObj(<<"a">> :> m1 @@ <<"b">> :> m2) : m1 \in ArgLeaves, m2 \in ArgLeaves}
    \cup {JsObj(<<"a">> :> JsNum(1) @@ <<"b">> :> JsFunction @@ <<"c">> :> JsSymbol)}
    \cup {JsArr(<<JsNum(1), m>>) : m \in ArgMembers}

\* runner.ts:76-80: runInDeno(taskPath, args, config) is called
LnInit ==
    /\ lnPc = "called"
    /\ \/ /\ args \in ArgSamples
          /\ taskPath = PathOf(<<(<<"a">>), (<<"t">>)>>)
          /\ taskConfig = [memory |-> 128, timeout |-> 30, network |-> TRUE]
       \/ /\ args = JsObj(<<>>)
          /\ taskPath \in TaskPaths
          /\ taskConfig \in TaskConfigs
    /\ safeArgs = <<>>
    /\ denoFlags = <<>>

\* runner.ts:88: const safeArgs = sanitizeArgs(args)
SanitizeArgs ==
    /\ lnPc = "called"
    /\ safeArgs' = sanitizeArgs(args)
    /\ lnPc' = "sanitized"
    /\ UNCHANGED <<taskPath, taskConfig, args, denoFlags>>
    /\ UNCHANGED <<escVars, arcVars, sbVars, runVars, serVars>>

\* runner.ts:81, 134-153: taskDir and the flags
BuildFlags ==
    /\ lnPc = "sanitized"
    /\ ~safeArgs.threw
    /\ denoFlags' = DenoFlags(taskConfig, dirname(taskPath))
    /\ lnPc' = "ready"
    /\ UNCHANGED <<taskPath, taskConfig, args, safeArgs>>
    /\ UNCHANGED <<escVars, arcVars, sbVars, runVars, serVars>>

LnNext == SanitizeArgs \/ BuildFlags

(***************************************************************************)
(* serializeValue (sandbox.ts:8-60).  Arrays and general objects have an   *)
(* identity: they live in a heap, a function from identifiers to nodes,    *)
(* and a value refers to one by [t |-> "ref", id |-> ...], so that an      *)
(* array can hold itself and an object can be reached twice.  A node is    *)
(* [t |-> "arr" or "obj", keys |-> ..., items |-> ...]; keys[i] is the     *)
(* name of the member items[i] of an object.  The values explored hold no  *)
(* Error, no symbol and no object with a toJSON method or a getter.        *)
(***************************************************************************)
SerIdle == serPc = "idle" /\ serIn = <<>> /\ serOut = <<>>

JsRef(id) == [t |-> "ref", id |-> id]

\* sandbox.ts:9
TextMaxDepth ==
    <<"[", "M", "a", "x", " ", "D", "e", "p", "t", "h", " ", "R", "e", "a", "c", "h",
      "e", "d", "]">>
\* sandbox.ts:39
TextCircular ==
    <<"[", "C", "i", "r", "c", "u", "l", "a", "r", "]">>
\* sandbox.ts:26, for a function with no name
TextAnonymous ==
    <<"[", "F", "u", "n", "c", "t", "i", "o", "n", ":", " ", "a", "n", "o", "n", "y",
      "m", "o", "u", "s", "]">>
\* sandbox.ts:54, for the TypeError JSON.stringify raises on a bigint
TextBigIntError ==
    <<"[", "O", "b", "j", "e", "c", "t", ":", " ", "T", "y", "p", "e", "E", "r", "r",
      "o", "r", ":", " ", "D", "o", " ", "n", "o", "t", " ", "k", "n", "o", "w", " ",
      "h", "o", "w", " ", "t", "o", " ", "s", "e", "r", "i", "a", "l", "i", "z", "e",
      " ", "a", " ", "B", "i", "g", "I", "n", "t", "]">>
TextNull ==
    <<"n", "u", "l", "l">>
TextTrue ==
    <<"t", "r", "u", "e">>
TextFalse ==
    <<"f", "a", "l", "s", "e">>
TextLeaf ==
    <<"l", "e", "a", "f">>

MaxDepth == 10

\* a limit that stops one level early
DepthExceededFrom10(depth) == depth >= MaxDepth

\* sandbox.ts:9: depth > 10
DepthExceeded(depth) == depth > MaxDepth

\* n spaces
Spaces(n) == [i \in 1..n |-> " "]

\* Array.prototype.join
Join(pieces, separator) ==
    Flatten([i \in DOMAIN pieces |-> IF i = 1 THEN pieces[i] ELSE separator \o pieces[i]])

\* The text of a node whose members have been written, each on a line of
\* its own: JSON.stringify with the indent 2.
NodeText(node, texts, seen, indent) ==
    [text |-> IF node.items = <<>>
              THEN IF node.t = "obj" THEN <<"{", "}">> ELSE <<"[", "]">>
              ELSE (IF node.t = "obj" THEN <<"{", LF>> ELSE <<"[", LF>>)
                   \o Join(texts, <<",", LF>>)
                   \o <<LF>> \o Spaces(indent)
                   \o (IF node.t = "obj" THEN <<"}">> ELSE <<"]">>),
     seen |-> seen, threw |-> FALSE]

\* The line of member i: its indent, its name in an object, its text.
MemberText(node, i, text, indent) ==
    Spaces(indent) \o (IF node.t = "obj" THEN QuoteJson(node.keys[i]) \o <<":", " ">> ELSE <<>>)
    \o text

\* JSON.stringify of a value that is no object: a bigint raises a TypeError
StringifyPlain(value, seen) ==
    [text |-> CASE value.t = "null" -> TextNull
                [] value.t = "num" -> IntToText(value.v)
                [] value.t = "str" -> QuoteJson(value.v)
                [] value.t = "bool" -> (IF value.v THEN TextTrue ELSE TextFalse)
                [] value.t = "bigint" -> <<>>,
     seen |-> seen, threw |-> value.t = "bigint"]

\* JSON.stringify(value, replacer, 2) (sandbox.ts:36-52) from the value on:
\* the text, the objects the replacer has seen so far, and whether a
\* TypeError was thrown.  The replacer gives '[Circular]' for an object or
\* array it has seen before, wherever that was, and JSON.stringify writes
\* that string between quotes.  It counts no depth.  StringifyFrom writes the
\* members of the node id from the i-th on, texts being the lines written.
RECURSIVE StringifyValue(_, _, _, _)
RECURSIVE StringifyFrom(_, _, _, _, _, _)
StringifyValue(heap, value, seen, indent) ==
    IF value.t # "ref" THEN StringifyPlain(value, seen)
    ELSE IF value.id \in seen
    THEN [text |-> QuoteJson(TextCircular), seen |-> seen, threw |-> FALSE]
    ELSE StringifyFrom(heap, value.id, 1, seen \cup {value.id}, indent, <<>>)

StringifyFrom(heap, id, i, seen, indent, texts) ==
    IF i > Len(heap[id].items) THEN NodeText(heap[id], texts, seen, indent)
    ELSE LET member == StringifyValue(heap, heap[id].items[i], seen, indent + 2)
         IN  IF member.threw THEN member
             ELSE StringifyFrom(heap, id, i + 1, member.seen, indent,
                                Append(texts,
                                       MemberText(heap[id], i, member.text, indent + 2)))

\* sandbox.ts:35-57: a general object, with a WeakSet of its own
SerializeObject(heap, value) ==
    IF StringifyValue(heap, value, {}, 0).threw THEN TextBigIntError
    ELSE StringifyValue(heap, value, {}, 0).text

\* serializeValue(value, depth) (sandbox.ts:8-60)
RECURSIVE serializeValue(_, _, _)
serializeValue(heap, value, depth) ==
    IF DepthExceeded(depth) THEN TextMaxDepth
    ELSE CASE value.t = "null" -> TextNull
           [] value.t = "undefined" -> TextUndefined
           [] value.t = "str" -> value.v
           [] value.t = "num" -> IntToText(value.v)
           [] value.t = "bool" -> IF value.v THEN TextTrue ELSE TextFalse
           [] value.t = "bigint" -> IntToText(value.v) \o <<"n">>
           [] value.t = "function" -> TextAnonymous
           [] value.t = "ref" /\ heap[value.id].t = "arr" ->
                IF heap[value.id].items = <<>> THEN <<"[", "]">>
                ELSE <<"[">>
                     \o Join([i \in DOMAIN heap[value.id].items |->
                                serializeValue(heap, heap[value.id].items[i], depth + 1)],
                             <<",", " ">>)
                     \o <<"]">>
           [] value.t = "ref" /\ heap[value.id].t = "obj" -> SerializeObject(heap, value)

\* The values explored.  A chain is a nest of arrays and objects, one inside
\* the other, kinds[i] being the kind of the i-th from the outside; the
\* innermost holds the leaf: a string, or the outermost once more.
MaxNesting == 12
LeafKinds == {"string", "outermost"}
ChainKinds ==
    UNION {{[i \in 1..d |-> "arr"],
            [i \in 1..d |-> "obj"],
            [i \in 1..d |-> IF i < d THEN "arr" ELSE "obj"],
            [i \in 1..d |-> IF i = 1 THEN "obj" ELSE "arr"]} : d \in 1..MaxNesting}

Chain(kinds, leaf) ==
    [heap |-> [i \in DOMAIN kinds |->
                 [t |-> kinds[i], keys |-> <<(<<"a">>)>>,
                  items |-> <<(IF i < Len(kinds) THEN JsRef(i + 1)
                               ELSE IF leaf = "string" THEN JsStr(TextLeaf)
                               ELSE JsRef(1))>>]],
     value |-> JsRef(1), kinds |-> kinds, leaf |-> leaf]

\* a value with no container around it
Plain(value) == [heap |-> <<>>, value |-> value, kinds |-> <<>>, leaf |-> "plain"]

\* an object whose two members are one and the same empty array, and an
\* object that holds a bigint
SharedMember ==
    [heap |-> <<[t |-> "obj", keys |-> <<(<<"a">>), (<<"b">>)>>,
                 items |-> <<JsRef(2), JsRef(2)>>],
                [t |-> "arr", keys |-> <<>>, items |-> <<>>]>>,
     value |-> JsRef(1), kinds |-> <<>>, leaf |-> "shared"]
BigIntMember ==
    [heap |-> <<[t |-> "obj", keys |-> <<(<<"a">>)>>, items |-> <<[t |-> "bigint", v |-> 1]>>]>>,
     value |-> JsRef(1), kinds |-> <<>>, leaf |-> "bigint"]

SerInputs ==
    {Chain(kinds, leaf) : kinds \in ChainKinds, leaf \in LeafKinds}
    \cup {Plain(value) : value \in {JsNull, Undefined, JsStr(TextLeaf), JsNum(42),
                                    JsBool(TRUE), [t |-> "bigint", v |-> 1], JsFunction}}
    \cup {SharedMember, BigIntMember}

SerInit == serPc = "idle" /\ serIn \in SerInputs /\ serOut = <<>>

\* a wrapper of captureConsole serializes an argument (sandbox.ts:71)
Serialize ==
    /\ serPc = "idle"
    /\ serOut' = serializeValue(serIn.heap, serIn.value, 0)
    /\ serPc' = "done"
    /\ UNCHANGED serIn
    /\ UNCHANGED <<escVars, arcVars, sbVars, runVars, lnVars>>

SerNext == Serialize

LnIdle == /\ lnPc = "idle" /\ taskPath = <<>> /\ taskConfig = <<>> /\ args = <<>>
          /\ safeArgs = <<>> /\ denoFlags = <<>>

RunIdle == /\ proc = <<>> /\ stdout = <<>> /\ stderr = <<>> /\ logs = <<>> /\ promise = <<>>
           /\ resolveCalls = 0 /\ elapsed = 0 /\ config = <<>>

(***************************************************************************)
(* Specifications: one per component, the others idle.                     *)
(***************************************************************************)
InitEscape == EscInit /\ ArcIdle /\ SbIdle /\ RunIdle /\ LnIdle /\ SerIdle

SpecEscape == InitEscape /\ [][EscNext]_vars

InitSandbox == EscIdle /\ ArcIdle /\ SbInit /\ RunIdle /\ LnIdle /\ SerIdle

InitArchive == EscIdle /\ ArcInit /\ SbIdle /\ RunIdle /\ LnIdle /\ SerIdle

SpecSandbox == InitSandbox /\ [][SbNext]_vars

SpecArchive == InitArchive /\ [][ArcNext]_vars

InitRunner == EscIdle /\ ArcIdle /\ SbIdle /\ RunInit /\ LnIdle /\ SerIdle

SpecRunner == InitRunner /\ [][RunNext]_vars

InitLaunch == EscIdle /\ ArcIdle /\ SbIdle /\ RunIdle /\ LnInit /\ SerIdle

SpecLaunch == InitLaunch /\ [][LnNext]_vars

InitSerialize == EscIdle /\ ArcIdle /\ SbIdle /\ RunIdle /\ LnIdle /\ SerInit

SpecSerialize == InitSerialize /\ [][SerNext]_vars

(***************************************************************************)
(* Claims about escapeJsString.                                            *)
(***************************************************************************)
Escaped(s) == \E i \in 1..Len(s) : s[i] \in {BSL, SQ, DQ, LF, CR, TAB, NUL}

\* C7: for every string s containing a backslash, a quote, a newline, a carriage
\* return, a tab or a null byte, the escaped text between single quotes is a
\* valid literal of the program and the value the program reads back is s.
C7_EmbeddedValueReadBack ==
    (escPc = "loaded" /\ Escaped(escIn)) =>
        (escRead.status = "ok" /\ escRead.value = escIn)

\* The number of backslashes that immediately precede position i of s.
RECURSIVE BackslashesBefore(_, _)
BackslashesBefore(s, i) ==
    IF i > 1 /\ s[i - 1] = BSL THEN 1 + BackslashesBefore(s, i - 1) ELSE 0

\* C8: the output of escapeJsString holds no raw newline, carriage return or null
\* byte, and every quote in it is preceded by an odd number of backslashes.
C8_NoLiteralBreakout ==
    escPc \in {"escaped", "loaded"} =>
        \A i \in 1..Len(escOut) :
            /\ escOut[i] \notin {LF, CR, NUL}
            /\ escOut[i] \in {SQ, DQ} => BackslashesBefore(escOut, i) % 2 = 1

\* An input made of a backslash and both quotes has been escaped.
C8_Witness ==
    /\ escPc = "escaped"
    /\ {BSL, SQ, DQ} \subseteq Range(escIn)

(***************************************************************************)
(* Claims about the archive.                                               *)
(***************************************************************************)
Unpacked == arcPc \in {"roundtrip", "unpacked"}

TotalSize(buffer) == SumLengths(buffer.files, DOMAIN buffer.files)

\* C4: a readable buffer within the stage-1 bound whose entries, all of them
\* summed, exceed MAX_DECOMPRESSED_SIZE makes decompressTask throw the
\* decompressed-size error; no source or bundle text is returned.
C4_Stage2Rejects ==
    (/\ Unpacked
     /\ arcZip.zipBuffer.length <= MAX_ZIP_SIZE
     /\ arcZip.zipBuffer.valid
     /\ TotalSize(arcZip.zipBuffer) > MAX_DECOMPRESSED_SIZE) =>
        /\ arcOut.status = "throw"
        /\ arcOut.error = "Decompressed content too large"
        /\ DOMAIN arcOut \cap {"source", "bundle"} = {}

\* A received archive whose source and bundle entries are within the bound and
\* whose third entry takes the sum over it.
C4_Witness ==
    /\ arcPc = "unpacked"
    /\ arcZip.zipBuffer.valid
    /\ arcZip.zipBuffer.length <= MAX_ZIP_SIZE
    /\ DOMAIN arcZip.zipBuffer.files = EntryNames
    /\ SumLengths(arcZip.zipBuffer.files, {"source.ts", "bundle.js"}) <= MAX_DECOMPRESSED_SIZE
    /\ TotalSize(arcZip.zipBuffer) > MAX_DECOMPRESSED_SIZE

\* C5: a buffer longer than MAX_ZIP_SIZE makes decompressTask throw the size
\* error without unzipSync having been invoked.
C5_Stage1BeforeUnzip ==
    (Unpacked /\ arcZip.zipBuffer.length > MAX_ZIP_SIZE) =>
        /\ arcOut.status = "throw"
        /\ arcOut.error = "ZIP file too large"
        /\ ~arcOut.unzipInvoked

\* A readable archive of small entries, one byte over the stage-1 bound.
C5_Witness ==
    /\ arcPc = "unpacked"
    /\ arcZip.zipBuffer.valid
    /\ arcZip.zipBuffer.length = MAX_ZIP_SIZE + 1
    /\ TotalSize(arcZip.zipBuffer) = 0

RECURSIVE WellFormedFrom(_, _)
WellFormedFrom(u, i) ==
    IF i > Len(u) THEN TRUE
    ELSE IF IsHigh(u[i]) THEN i < Len(u) /\ IsLow(u[i + 1]) /\ WellFormedFrom(u, i + 2)
    ELSE ~IsLow(u[i]) /\ WellFormedFrom(u, i + 1)

WellFormed(text) == WellFormedFrom(text.head, 1)

WithinBounds(buffer) ==
    /\ buffer.valid
    /\ buffer.length <= MAX_ZIP_SIZE
    /\ TotalSize(buffer) <= MAX_DECOMPRESSED_SIZE

\* C19: an archive within both bounds that lacks the source entry makes
\* decompressTask throw the error that names source.ts, one that lacks only
\* the bundle entry makes it throw the error that names bundle.js, and in
\* neither case is a source or a bundle text returned.
C19_MissingEntryRejected ==
    (Unpacked /\ WithinBounds(arcZip.zipBuffer))
    => LET entries == DOMAIN arcZip.zipBuffer.files IN
       /\ "source.ts" \notin entries
              => arcOut = [status |-> "throw", unzipInvoked |-> TRUE,
                           error |-> "source.ts not found in ZIP archive"]
       /\ ("source.ts" \in entries /\ "bundle.js" \notin entries)
              => arcOut = [status |-> "throw", unzipInvoked |-> TRUE,
                           error |-> "bundle.js not found in ZIP archive"]

\* An archive with a source entry and another entry, and no bundle entry, has
\* been rejected.
C19_Witness ==
    /\ arcPc = "unpacked"
    /\ WithinBounds(arcZip.zipBuffer)
    /\ DOMAIN arcZip.zipBuffer.files = {"source.ts", "extra.bin"}
    /\ arcOut.status = "throw"
    /\ arcOut.error = "bundle.js not found in ZIP archive"

\* C20: a call of compressTask with the same source and bundle made at any
\* other time returns the same compressed bytes and the same checksum.
C20_CompressDeterministic ==
    arcPc = "compressed" =>
        \A now \in 0..MaxClock :
            LET again == compressTask(arcSource, arcBundle, arcZip.zipBuffer.length, now)
            IN  /\ again.zipBuffer = arcZip.zipBuffer
                /\ again.checksum = arcZip.checksum

\* C21: a container whose compressed bytes do not match the checksum carried
\* with it is never unpacked into a {source, bundle} pair: unpacking throws.
C21_ChecksumMismatchRejected ==
    (Unpacked /\ arcZip.checksum # calculateSha256(arcZip.zipBuffer)) =>
        arcOut.status = "throw"

(***************************************************************************)
(* Claims about sandbox().                                                 *)
(***************************************************************************)
\* A call that has settled and during which no other call was in flight.
SettledAlone(c) == sbCall[c].pc = "settled" /\ ~sbCall[c].overlapped

\* C2: after sandbox() settles, on any exit path, process.env is the
\* environment view it was immediately before the call.
C2_EnvRestored ==
    \A c \in CallIds : SettledAlone(c) => sbCall[c].envAfter = sbCall[c].envBefore

\* C3: after a single sandbox() call settles, on any exit path, the four console
\* functions are the ones installed immediately before the call; a failing
\* unlink of the temp file does not prevent that, nor change the outcome, which
\* is a result exactly when run returned.
C3_ConsoleRestored ==
    \A c \in CallIds :
        SettledAlone(c) =>
            /\ sbCall[c].consoleAfter = sbCall[c].consoleBefore
            /\ sbCall[c].outcome.status = "resolved" <=> sbCall[c].path = "run returned"
            /\ sbCall[c].outcome.status \in {"resolved", "rejected"}

\* A call whose run threw while the wrappers were installed, and whose temp
\* file could not be deleted.
C3_Witness ==
    \E c \in CallIds :
        /\ SettledAlone(c)
        /\ sbCall[c].path = "run threw"
        /\ sbCall[c].tempFileLeft
        /\ sbCall[c].consoleAfter = [f \in ConsoleFns |-> 0]
\* The module exposes a default export with a callable run.
HasCallableRun(module) == module.default = "object" /\ module.run = "function"

\* C22: when the loaded module has no default export, or its default export has
\* no callable run, the call fails with the descriptive validation error of the
\* missing part and run is never invoked; run is invoked only for a module that
\* passed both validation checks.
C22_ValidationBeforeRun ==
    \A c \in CallIds :
        /\ sbCall[c].runInvoked => HasCallableRun(sbCall[c].module)
        /\ (sbCall[c].module # NoModule /\ ~HasCallableRun(sbCall[c].module)) =>
              /\ sbCall[c].pc = "settled"
              /\ ~sbCall[c].runInvoked
              /\ sbCall[c].outcome.status = "rejected"
              /\ sbCall[c].outcome.message =
                    SandboxPrefix \o (IF sbCall[c].module.default = "object"
                                      THEN MsgRunNotAvailable
                                      ELSE MsgDefaultNotAvailable)

\* A module whose default export holds a run that is a number, not a function.
C22_Witness ==
    \E c \in CallIds :
        /\ sbCall[c].pc = "settled"
        /\ sbCall[c].module = [default |-> "object", run |-> "number"]
        /\ sbCall[c].outcome.status = "rejected"
        /\ ~sbCall[c].runInvoked

C24_SandboxedWhileCodeRuns ==
    \A c \in CallIds :
        Active(c) =>
            /\ processEnv.vars = {}
            /\ \A f \in ConsoleFns : c \in WrapperChain(console[f], f)

\* C28: when two sandbox() calls overlapped, then after both have settled, in
\* either order, the four console functions are the ones installed before the
\* first call started (the host's), and a console call appends to no log buffer.
C28_ConsoleRestoredAfterOverlap ==
    ((\A c \in CallIds : sbCall[c].pc = "settled" /\ sbCall[c].overlapped)
        /\ Cardinality(CallIds) = 2) =>
        \A f \in ConsoleFns :
            /\ console[f] = 0
            /\ WrapperChain(console[f], f) = {}
(***************************************************************************)
(* Claims about runInDeno.                                                 *)
(***************************************************************************)
\* the close handler has run for a process that was spawned
ClosedWith(code) == proc.state = "closed" /\ proc.spawned /\ proc.code = code

Failed == promise.state = "resolved" /\ promise.value.success = FALSE

\* C1: once more than config.timeout seconds have elapsed since the launch,
\* the process is no longer running (it was terminated if it had not ended)
\* and the promise is resolved with success = false.
C1_TimeoutEnforced ==
    elapsed > config.timeout => (proc.state # "running" /\ Failed)

\* C9: when the process has closed with exit code 0 and no line of its
\* standard output begins with __THYME_RESULT__, the promise is resolved with
\* success = false and error equal to "No result found in output".
C9_NoResultLineError ==
    (/\ ClosedWith(ExitCode(0))
     /\ \A i \in DOMAIN SplitLines(stdout) :
            ~StartsWith(SplitLines(stdout)[i], MARKER_RESULT))
    => (Failed /\ promise.value.error = MsgNoResult)

\* C9, amended: when the process has closed with exit code 0 and no line of
\* its standard output, taken without its leading and trailing white space,
\* begins with __THYME_RESULT__, the promise is resolved with success = false
\* and error equal to "Failed to parse result: No result found in output".
C9_NoResultLineParseFailure ==
    (/\ ClosedWith(ExitCode(0))
     /\ \A i \in DOMAIN SplitLines(Trim(stdout)) :
            ~StartsWith(SplitLines(Trim(stdout))[i], MARKER_RESULT))
    => (Failed /\ promise.value.error = MsgFailedToParse \o MsgNoResult)

\* A process that wrote a log line and no result has closed with code 0, and
\* the promise holds the failure.
C9_Witness ==
    /\ ClosedWith(ExitCode(0))
    /\ stdout = OutLogsOnly
    /\ Failed
    /\ promise.value.error = MsgFailedToParse \o MsgNoResult

\* C10: when a spawned process has closed with a code other than 0, the
\* promise is resolved with success = false, the value has no result and no
\* statistics, and its error is sanitizeErrorMessage of stderr, or of
\* "Process exited with code <n>" when stderr is empty, whatever the
\* standard output holds.
C10_NonZeroExitFails ==
    (proc.state = "closed" /\ proc.spawned /\ proc.code # ExitCode(0))
    => /\ Failed
       /\ DOMAIN promise.value = {"success", "logs", "error"}
       /\ promise.value.error =
              sanitizeErrorMessage(IF stderr # <<>> THEN stderr
                                   ELSE MsgProcessExited \o CodeToText(proc.code))

\* A process that wrote a well-formed result line and an error with a stack
\* frame has closed with code 1; the promise holds the error without the path
\* and the frame.
C10_Witness ==
    /\ ClosedWith(ExitCode(1))
    /\ stdout = OutResultOnly
    /\ stderr = ErrUncaught
    /\ Failed
    /\ promise.value.error = <<"E", "r", "r", "o", "r", ":", " ", "b", "o", "o", "m">>

\* the standard-output lines that begin with neither marker, in order
NonMarkerLines(out) ==
    LET lines == SplitLines(out)
        plain == {i \in DOMAIN lines :
                     /\ ~StartsWith(lines[i], MARKER_RESULT)
                     /\ ~StartsWith(lines[i], MARKER_STATS)
                     /\ lines[i] # <<>>}
        \* the k-th plain line
        Nth(k) == CHOOSE i \in plain : Cardinality({j \in plain : j < i}) = k - 1
    IN  [k \in 1..Cardinality(plain) |-> lines[Nth(k)]]

\* C11: when a spawned process has closed with a code other than 0, the logs
\* of the value the promise holds are, in order, the standard-output lines
\* captured before the failure that begin with neither marker.
C11_LogsOnNonZeroExit ==
    (proc.state = "closed" /\ proc.spawned /\ proc.code # ExitCode(0))
    => (Failed /\ promise.value.logs = NonMarkerLines(stdout))

\* the positions of the standard-output lines that begin with __THYME_RESULT__
ResultLinesOf(out) ==
    {i \in DOMAIN SplitLines(out) : StartsWith(SplitLines(out)[i], MARKER_RESULT)}

\* C12: when the standard output of a process that closed with code 0 holds
\* more than one line beginning with __THYME_RESULT__ and the run succeeds,
\* the result is the decoded payload of the first of these lines.
C12_FirstResultLineWins ==
    (/\ ClosedWith(ExitCode(0))
     /\ Cardinality(ResultLinesOf(stdout)) > 1
     /\ promise.state = "resolved" /\ promise.value.success)
    => LET first == SplitLines(stdout)[Min(ResultLinesOf(stdout))]
       IN  promise.value.result = JSONParse(Substring(first, Len(MARKER_RESULT))).v

\* C13: when the process has closed with exit code 0, the logs of the value
\* the promise holds are exactly the standard-output lines that begin with
\* neither marker, in their original order and unaltered.
C13_LogsAreNonMarkerLines ==
    ClosedWith(ExitCode(0))
    => (promise.state = "resolved" /\ promise.value.logs = NonMarkerLines(stdout))

\* the lines of the standard output taken without its leading and trailing
\* white space that begin with neither marker and hold a character other than
\* white space, each without its own leading and trailing white space
TrimmedNonMarkerLines(out) ==
    LET lines == SplitLines(Trim(out))
        plain == {i \in DOMAIN lines :
                     /\ ~StartsWith(lines[i], MARKER_RESULT)
                     /\ ~StartsWith(lines[i], MARKER_STATS)
                     /\ \E j \in DOMAIN lines[i] : lines[i][j] \notin Whitespace}
        Nth(k) == CHOOSE i \in plain : Cardinality({j \in plain : j < i}) = k - 1
    IN  [k \in 1..Cardinality(plain) |-> Trim(lines[Nth(k)])]

\* C13, amended: when the process has closed with exit code 0, the logs are
\* exactly, in their original order, the lines of the trimmed standard output
\* that begin with neither marker and are not blank, each one trimmed.
C13_LogsAreTrimmedNonMarkerLines ==
    ClosedWith(ExitCode(0))
    => (promise.state = "resolved"
        /\ promise.value.logs = TrimmedNonMarkerLines(stdout))

\* A process that wrote a padded log line ended by CR LF and a result line has
\* closed with code 0; the logs hold the line without the padding.
C13_Witness ==
    /\ ClosedWith(ExitCode(0))
    /\ stdout = OutCrLf
    /\ promise.state = "resolved" /\ promise.value.success
    /\ promise.value.logs = <<(<<"h", "i">>)>>

Succeeded == promise.state = "resolved" /\ promise.value.success

\* C14: memoryUsed of a value the promise holds is never a negative number,
\* whatever statistics text reached the standard output.
C14_MemoryUsedNeverNegative ==
    (Succeeded /\ promise.value.memoryUsed.t = "num")
    => promise.value.memoryUsed.v >= 0

\* C14, amended: when the standard output is what the generated program
\* wrote, memoryUsed is the heap growth measured around task.run or 0 when
\* the heap shrank, and so it is never negative.
C14_ProgramStatsNeverNegative ==
    \A heap \in HeapSamples :
        (ClosedWith(ExitCode(0)) /\ stdout = ProgramOutput(heap[1], heap[2]))
        => /\ Succeeded
           /\ promise.value.memoryUsed.t = "num"
           /\ promise.value.memoryUsed.v >= 0
           /\ promise.value.memoryUsed.v \in {0, heap[2] - heap[1]}

\* A run in which the heap shrank from 10 to 5 has closed with code 0 and the
\* promise holds memoryUsed = 0.
C14_Witness ==
    /\ ClosedWith(ExitCode(0))
    /\ stdout = ProgramOutput(10, 5)
    /\ Succeeded
    /\ promise.value.memoryUsed = [t |-> "num", v |-> 0]

\* C16: the promise is settled at most once and never rejected: the first
\* of the 'error' and 'close' events resolves it, a later event leaves it as
\* it is, and a process that could not be spawned or that failed is reported
\* by a value with success = false.
C16_SettlesOnce ==
    [][/\ promise'.state \in {"pending", "resolved"}
       /\ promise.state = "resolved" => promise' = promise
       /\ (promise.state = "pending" /\ resolveCalls' > resolveCalls)
              => promise'.state = "resolved"
       /\ (promise'.state = "resolved"
           /\ (~proc'.spawned \/ (proc'.state = "closed" /\ proc'.code # ExitCode(0))))
              => ~promise'.value.success]_vars

\* The 'error' event and then the 'close' event of a process that could not
\* be spawned have both called resolve; the promise holds the value of the
\* first.
C16_Witness ==
    /\ proc.state = "closed" /\ ~proc.spawned
    /\ resolveCalls = 2
    /\ promise = [state |-> "resolved", value |-> SpawnFailure(MsgEnoent, <<>>)]

(***************************************************************************)
(* Claims about what runInDeno prepares.                                   *)
(***************************************************************************)
\* value, or a value held in it at any depth, is of one of the types
RECURSIVE Holds(_, _)
Holds(value, types) ==
    \/ value.t \in types
    \/ value.t = "obj" /\ \E k \in DOMAIN value.v : Holds(value.v[k], types)
    \/ value.t = "arr" /\ \E i \in DOMAIN value.v : Holds(value.v[i], types)

\* C17: sanitizeArgs never throws; it returns null, undefined and values that
\* are not objects as they are, and {} for an object whose JSON round trip
\* fails (one that holds a circular reference or a bigint).
C17_SanitizeArgsNeverThrows ==
    lnPc # "called" =>
        /\ ~safeArgs.threw
        /\ args.t \notin {"obj", "arr"} => safeArgs.value = args
        /\ (args.t \in {"obj", "arr"} /\ Holds(args, {"cycle", "bigint"}))
               => safeArgs.value = JsObj(<<>>)

\* An object with a member that refers back to it has been sanitized to {}.
C17_Witness ==
    /\ lnPc = "sanitized"
    /\ args = JsObj(<<"a">> :> JsNum(1) @@ <<"b">> :> JsCycle)
    /\ safeArgs = [threw |-> FALSE, value |-> JsObj(<<>>)]

\* value without its function, symbol and circular members, at every depth
RECURSIVE WithoutDropped(_)
WithoutDropped(value) ==
    LET Dropped(member) == member.t \in {"function", "symbol", "cycle"} IN
    CASE value.t = "obj" ->
           JsObj([k \in {n \in DOMAIN value.v : ~Dropped(value.v[n])} |->
                     WithoutDropped(value.v[k])])
      [] value.t = "arr" ->
           LET kept == SelectSeq(value.v, LAMBDA member : ~Dropped(member))
           IN  JsArr([i \in DOMAIN kept |-> WithoutDropped(kept[i])])
      [] OTHER -> value

RECURSIVE PlainCopy(_)
PlainCopy(value) ==
    CASE value.t = "obj" ->
           JsObj([k \in {n \in DOMAIN value.v : value.v[n].t \notin Unserializable} |->
                     PlainCopy(value.v[k])])
      [] value.t = "arr" ->
           JsArr([i \in DOMAIN value.v |->
                     IF value.v[i].t \in Unserializable THEN JsNull
                     ELSE PlainCopy(value.v[i])])
      [] value.t = "nan" -> JsNull
      [] OTHER -> value

IsPermission(flag) ==
    flag.name \in {"-A", "--allow-all", "--allow-read", "--allow-write", "--allow-net",
                   "--allow-env", "--allow-run", "--allow-sys", "--allow-ffi",
                   "--allow-hrtime"}

FlagsNamed(name) == {i \in DOMAIN denoFlags : denoFlags[i].name = name}

\* C15: the arguments hold --allow-net exactly when config.network is true,
\* hold the memory flag when config.memory is set, hold exactly one
\* --allow-read entry, which grants the task's directory and nothing else,
\* hold no other flag that grants a permission, and end with '-'.
C15_MinimalPermissions ==
    lnPc = "ready" =>
        /\ (FlagsNamed("--allow-net") # {}) <=> taskConfig.network
        /\ taskConfig.memory # 0 => FlagsNamed("--v8-flags") # {}
        /\ Cardinality(FlagsNamed("--allow-read")) = 1
        /\ \A i \in FlagsNamed("--allow-read") :
               AllowedPaths(denoFlags[i].value) = {dirname(taskPath)}
        /\ \A i \in DOMAIN denoFlags :
               IsPermission(denoFlags[i])
                   => denoFlags[i].name \in {"--allow-read", "--allow-net"}
        /\ denoFlags[Len(denoFlags)] = Bare("-")

\* C26: nothing is classified or decoded before the 'close' event, and the
\* RunResult depends only on the total standard output, the total standard
\* error and the exit code: it is the one the close handler gives for the
\* whole output decoded at once, however the bytes were split into chunks and
\* however the data events of the two streams were interleaved.
C26_ChunkingIndependent ==
    /\ (proc.state = "running" /\ proc.spawned) =>
          (promise.state = "pending" /\ logs = <<>>)
    /\ (proc.state = "closed" /\ proc.spawned) =>
          promise.value =
              OnClose(proc.code, toString(proc.allOut), toString(proc.allErr), <<>>).value

\* C29: a resolved RunResult with success = true holds a result that is a
\* decoded object (never null, never missing) and no error; one with
\* success = false holds no result and an error that is a non-empty string.
C29_RunResultShape ==
    promise.state = "resolved" =>
        LET value == promise.value
        IN  /\ value.success =>
                  /\ "result" \in DOMAIN value
                  /\ value.result.t = "obj"
                  /\ "error" \notin DOMAIN value
            /\ ~value.success =>
                  /\ "result" \notin DOMAIN value
                  /\ "error" \in DOMAIN value
                  /\ value.error # <<>>

\* What a RunResult reports of the task: the result and the three statistics.
Reported(value) ==
    [result |-> value.result, executionTime |-> value.executionTime,
     memoryUsed |-> value.memoryUsed, rpcRequestCount |-> value.rpcRequestCount]

\* No line of the text begins with one of the two markers.
NoMarkerLine(text) ==
    \A line \in Range(SplitLines(text)) :
        ~StartsWith(line, MARKER_RESULT) /\ ~StartsWith(line, MARKER_STATS)

Contains(text, pattern) ==
    \E i \in 1..(Len(text) - Len(pattern) + 1) :
        SubSeq(text, i, i + Len(pattern) - 1) = pattern

\* The number of arrays around the outermost object of a chain; the length of
\* the chain when it holds no object.
LeadingArrays(kinds) ==
    IF \A i \in DOMAIN kinds : kinds[i] = "arr" THEN Len(kinds)
    ELSE Min({i \in DOMAIN kinds : kinds[i] = "obj"}) - 1

\* The chain closes a cycle that passes through a general object.
CycleThroughObject(input) ==
    input.leaf = "outermost" /\ \E i \in DOMAIN input.kinds : input.kinds[i] = "obj"

\* C27: serializeValue ends on every value, self-containing arrays and cyclic
\* objects included; a cyclic reference inside a general object is rendered as
\* "[Circular]" where the object is rendered at all; and a value nested more
\* than 10 levels deep, in sequences or in general objects, is rendered as
\* "[Max Depth Reached]" and not descended into.
C27_DepthCapEverywhere ==
    (serPc = "done" /\ serIn.kinds # <<>>) =>
        /\ (CycleThroughObject(serIn) /\ LeadingArrays(serIn.kinds) <= MaxDepth) =>
              Contains(serOut, TextCircular)
        /\ (serIn.leaf = "string" /\ Len(serIn.kinds) <= MaxDepth) =>
              (Contains(serOut, TextLeaf) /\ ~Contains(serOut, TextMaxDepth))
        /\ (serIn.leaf = "string" /\ Len(serIn.kinds) > MaxDepth) =>
              (Contains(serOut, TextMaxDepth) /\ ~Contains(serOut, TextLeaf))

\* C27, amended: the depth limit holds for what is nested more than 10 levels
\* deep in sequences; what a general object holds, at 10 levels or fewer of
\* sequences, is rendered whole by the structural encoder, which has no depth
\* limit, and its cyclic references are rendered as "[Circular]".  A chain of
\* sequences that holds itself ends with the depth placeholder.
C27_DepthCapInSequences ==
    (serPc = "done" /\ serIn.kinds # <<>>) =>
        /\ LeadingArrays(serIn.kinds) > MaxDepth =>
              (Contains(serOut, TextMaxDepth) /\ ~Contains(serOut, TextLeaf)
               /\ ~Contains(serOut, TextCircular))
        /\ (LeadingArrays(serIn.kinds) <= MaxDepth /\ serIn.leaf = "string") =>
              (Contains(serOut, TextLeaf) /\ ~Contains(serOut, TextMaxDepth))
        /\ (LeadingArrays(serIn.kinds) <= MaxDepth /\ CycleThroughObject(serIn)) =>
              (Contains(serOut, TextCircular) /\ ~Contains(serOut, TextMaxDepth))
        /\ (LeadingArrays(serIn.kinds) <= MaxDepth /\ serIn.leaf = "outermost"
            /\ ~CycleThroughObject(serIn)) =>
              Contains(serOut, TextMaxDepth)

\* An array that holds itself has been serialized, and so has a string eleven
\* arrays deep.
C27_Witness ==
    /\ serPc = "done"
    /\ \/ serIn = Chain(<<"arr">>, "outermost") /\ Contains(serOut, TextMaxDepth)
       \/ /\ serIn = Chain([i \in 1..(MaxDepth + 1) |-> "arr"], "string")
          /\ Contains(serOut, TextMaxDepth)

(***************************************************************************)
(* Claims about the error texts of both execution modes.                   *)
(***************************************************************************)
\* The text holds no match of the path pattern and none of the stack-line
\* pattern, and is at most 500 characters plus the ellipsis long.
Redacted(text) ==
    /\ PathMatches(text, 1) = {}
    /\ StackMatches(text, 1) = {}
    /\ Len(text) <= MaxErrorLength + 3

\* C25: every error text surfaced to the caller, RunResult.error of the
\* launcher and the message of the failure sandbox() raises, has been passed
\* through the redaction: it holds no absolute path segment and no stack-trace
\* line and is at most 500 characters plus the ellipsis marker.
C25_ErrorTextRedacted ==
    /\ resolveCalls > 0 =>
          (promise.value.success = FALSE => Redacted(promise.value.error))
    /\ \A c \in DOMAIN sbCall :
          sbCall[c].outcome.status = "rejected" => Redacted(sbCall[c].outcome.message)

====
